---------------------------- MODULE Spec2Model ----------------------------
(***************************************************************************)
(* Model of the openvino_xai visualization pipeline (explainer/visualizer  *)
(* .py, common/utils.py) and of the explain-mode selection of the          *)
(* Explainer; of the pure functions scaling (common/utils.py),            *)
(* get_target_indices and explains_all (explainer/utils.py); of the       *)
(* RISE black-box method (methods/black_box/rise.py); of the target node   *)
(* search of IRParserCls (insertion/parse_model.py); and of has_xai.       *)
(*                                                                         *)
(* Arrays.  A stack of saliency maps (the numpy array saliency_map_np) is  *)
(* a record [data, h, w, color, dtype]: data is the sequence of maps, each *)
(* map the row-major sequence of its h*w pixels; a pixel is an integer for *)
(* a grayscale map and a triple <<r, g, b>> once color is TRUE.  Float      *)
(* values are carried as integers.  An image is [shape, val]: its numpy    *)
(* shape and the value all of its elements have; shape <<>> is None.       *)
(* An output_size is <<h, w>>, or <<>> for None.                           *)
(***************************************************************************)
EXTENDS Integers, Sequences, FiniteSets, TLC

VARIABLES
    explanation,  \* the Explanation object: [layout, keys, maps, metadata]
    call,         \* arguments of the last Visualizer.visualize call
    pre,          \* the Explanation as it was when that call started
    outcome,      \* "none" | "returned" | the exception the call raised
    trace,        \* steps the call completed, in order: [op, dtype, color]
    ncalls,       \* visualize calls made on the Explanation so far
    xmode,        \* Explainer: requested explain mode of the current call
    xinput,       \* Explainer: [graph, postprocess_fn, forward_ok]
    xpc,          \* Explainer: position of the explain call
    xattempts,    \* Explainer: methods attempted so far in this call
    xresult,      \* Explainer: [derived, error] of the finished call
    scal,         \* scaling: [pc, saliency_map, nonfinite, cast_to_uint8, out, again]
    tgt,          \* target resolution: [pc, label_names, targets, result]
    rise,         \* RISE: the method object, its running call and the finished ones
    node,         \* get_target_node: [pc, ops, model_type, target_node_name, k, result]
    xai,          \* has_xai and insert_xai: [pc, model, before, inserted, result]
    msk,          \* RISE._generate_mask: [pc, input_size, num_cells, prob, generator, mask]
    rsz,          \* resize: [pc, saliency_map, output_size, batches, out]
    lay           \* format_to_bhwc: [pc, image, out, again]

vars == <<explanation, call, pre, outcome, trace, ncalls,
          xmode, xinput, xpc, xattempts, xresult, scal, tgt, rise,
          node, xai, msk, rsz, lay>>

visVars == <<explanation, call, pre, outcome, trace, ncalls>>
explainVars == <<xmode, xinput, xpc, xattempts, xresult>>
utilVars == <<scal, tgt>>
riseVars == <<rise>>
graphVars == <<node, xai>>
arrayVars == <<msk, rsz, lay>>

-----------------------------------------------------------------------------
(* Bounds of the model *)

\* visualize calls made on one Explanation
MaxCalls == 2
\* number of target maps of a multiple-maps Explanation
MaxTargets == 2
\* raw saliency maps are MapH x MapW
MapH == 2
MapW == 2
\* regular images are ImgH x ImgW (both larger than the channel count)
ImgH == 4
ImgW == 5
\* height of the thin image, not larger than the channel count
ThinH == 2
\* the small explicit output size is OutH x OutW
OutH == 2
OutW == 3

\* elements of the arrays scaling is given
MaxPixels == 4

\* names of a label table
MaxLabels == 3

\* classes of the model RISE explains
NumClasses == 2
\* RISE inputs are RiseSize x RiseSize, or wider
RiseSize == 3
\* largest explicit num_masks of a RISE call
MaxMasks == 2
\* generate_saliency_map calls made on one RISE object
MaxRiseCalls == 3

\* nodes of a model graph after its Parameter
MaxNodes == 3
\* outputs of an object handed to has_xai
MaxOutputs == 3
\* sides of the inputs _generate_mask is given, and its largest num_cells
MaxSide == 3
MaxCells == 2
\* full batches of the largest stack resize is given
MaxBatches == 2
\* dimensions of the images format_to_bhwc is given
MaxDim == 4

\* channels of an RGB image
Channels == 3

-----------------------------------------------------------------------------
(* Small helpers *)

Min2(a, b) == IF a < b THEN a ELSE b
Max2(a, b) == IF a > b THEN a ELSE b
Abs(a) == IF a < 0 THEN -a ELSE a

SeqMin(s) == CHOOSE m \in {s[k] : k \in 1..Len(s)} : \A k \in 1..Len(s) : m <= s[k]

SeqMax(s) == CHOOSE m \in {s[k] : k \in 1..Len(s)} : \A k \in 1..Len(s) : m >= s[k]

\* a sequence given by a rule, with its elements computed (an ndarray holds
\* values, not the expression they came from)
Array(s) == SubSeq(s, 1, Len(s))

\* numpy shape of one stored map
MapShape(m) == IF m.color THEN <<m.h, m.w, Channels>> ELSE <<m.h, m.w>>

-----------------------------------------------------------------------------
(* openvino_xai/common/utils.py *)

\* min and max taken over the whole stack
get_min_max_global(data) ==
    LET all == {data[i][k] : i \in 1..Len(data), k \in 1..Len(data[1])}
        lo == CHOOSE m \in all : \A v \in all : m <= v
        hi == CHOOSE m \in all : \A v \in all : m >= v
    IN  [mins |-> Array([i \in 1..Len(data) |-> lo]),
         maxs |-> Array([i \in 1..Len(data) |-> hi])]

\* min and max of every map of a (num_maps, h*w) array
get_min_max(data) ==
    [mins |-> Array([i \in 1..Len(data) |-> SeqMin(data[i])]),
     maxs |-> Array([i \in 1..Len(data) |-> SeqMax(data[i])])]

\* max_value * (x - min) / (max - min + 1e-12), then astype(uint8): the
\* quotient is truncated; a constant map gives 0 / 1e-12 = 0
ScaleValue(x, mn, mx) ==
    IF mx = mn THEN 0 ELSE (255 * (x - mn)) \div (mx - mn)

\* scaling that leaves the dtype as it was
scaling_keeps_dtype(st) ==
    LET mm == get_min_max(st.data)
    IN  [st EXCEPT
            !.data = Array([i \in 1..Len(st.data) |->
                        Array([k \in 1..Len(st.data[i]) |->
                            ScaleValue(st.data[i][k], mm.mins[i], mm.maxs[i])])])]

scaling(st) ==
    LET mm == get_min_max(st.data)
    IN  [st EXCEPT
            !.data = Array([i \in 1..Len(st.data) |->
                        Array([k \in 1..Len(st.data[i]) |->
                            ScaleValue(st.data[i][k], mm.mins[i], mm.maxs[i])])]),
            !.dtype = "uint8"]

is_bhwc_layout(shape) == shape[2] > shape[4] /\ shape[3] > shape[4]

\* formatting that never transposes
format_to_bhwc_no_transpose(image) ==
    [image EXCEPT !.shape = IF Len(image.shape) = 3 THEN <<1>> \o image.shape ELSE image.shape]

\* np.expand_dims(image, axis=0) for ndim 3, then the transpose (0, 2, 3, 1)
\* when the layout check fails
format_to_bhwc(image) ==
    LET s4 == IF Len(image.shape) = 3 THEN <<1>> \o image.shape ELSE image.shape
    IN  IF is_bhwc_layout(s4)
        THEN [image EXCEPT !.shape = s4]
        ELSE [image EXCEPT !.shape = <<s4[1], s4[3], s4[4], s4[2]>>]

\* size inference that always reads the last two dimensions
infer_size_from_image_chw(image) ==
    LET s4 == IF Len(image.shape) = 3 THEN <<1>> \o image.shape ELSE image.shape
    IN  IF Len(image.shape) = 2 THEN image.shape ELSE <<s4[3], s4[4]>>

infer_size_from_image(image) ==
    LET s4 == IF Len(image.shape) = 3 THEN <<1>> \o image.shape ELSE image.shape
    IN  IF Len(image.shape) = 2 THEN image.shape
        ELSE IF s4[2] > s4[4] /\ s4[3] > s4[4]
             THEN <<s4[2], s4[3]>>
             ELSE <<s4[3], s4[4]>>

-----------------------------------------------------------------------------
(* openvino_xai/explainer/visualizer.py: module functions *)

\* cv2.resize of one h*w plane to oh*ow.  OpenCV is an external library: its
\* interpolation is modelled by sampling the source pixel under each target
\* pixel, so the result has the target size and values of the source.
cv2_resize(px, h, w, oh, ow) ==
    Array([i \in 1..(oh * ow) |->
        LET y == (i - 1) \div ow
            x == (i - 1) % ow
        IN  px[((y * h) \div oh) * w + ((x * w) \div ow) + 1]])

\* cv2.resize of an (h, w, n) batch: every channel is resized on its own,
\* and a batch of one channel comes back without its channel axis
cv2_resize_batch(batch, h, w, oh, ow) ==
    LET planes == Array([c \in 1..Len(batch) |-> cv2_resize(batch[c], h, w, oh, ow)])
    IN  IF Len(batch) = 1 THEN [ndim |-> 2, data |-> planes[1]]
        ELSE [ndim |-> 3, data |-> planes]

\* np.expand_dims(resized_batch, axis=2) of a 2-D batch
expand_dims(resized_batch) == [ndim |-> 3, data |-> <<resized_batch.data>>]

\* channels are resized in consecutive batches of batch_size
batch_size == 500

\* the batches of the loop, concatenated along the channel axis
RECURSIVE resize_batches(_, _, _, _, _, _)
resize_batches(data, start_idx, h, w, oh, ow) ==
    IF start_idx >= Len(data) THEN <<>>
    ELSE LET end_idx == Min2(start_idx + batch_size, Len(data))
             batch == SubSeq(data, start_idx + 1, end_idx)
             resized == cv2_resize_batch(batch, h, w, oh, ow)
             resized_batch == IF resized.ndim = 2 THEN expand_dims(resized) ELSE resized
         IN  resized_batch.data \o resize_batches(data, end_idx, h, w, oh, ow)

\* the <<start_idx, end_idx>> of the batches of the loop over a stack of
\* the given number of channels
RECURSIVE batch_ranges(_, _)
batch_ranges(channels, start_idx) ==
    IF start_idx >= channels THEN <<>>
    ELSE LET end_idx == Min2(start_idx + batch_size, channels)
         IN  <<(<<start_idx, end_idx>>)>> \o batch_ranges(channels, end_idx)

\* saliency_map.ndim: an array that records no ndim is a stack of maps; a
\* 2-D array is [ndim, h, w, plane], plane being its pixels
Ndim(st) == IF "ndim" \in DOMAIN st THEN st.ndim ELSE 3

\* resize that stops after the first batch
resize_first_batch(st, output_size) ==
    IF Ndim(st) = 2
    THEN [st EXCEPT !.plane = cv2_resize(st.plane, st.h, st.w, output_size[1], output_size[2]),
                    !.h = output_size[1],
                    !.w = output_size[2]]
    ELSE [st EXCEPT !.data = resize_batches(SubSeq(st.data, 1, Min2(batch_size, Len(st.data))),
                                            0, st.h, st.w, output_size[1], output_size[2]),
                    !.h = output_size[1],
                    !.w = output_size[2]]

\* a 2-D map goes through cv2.resize as it is, a stack batch by batch
resize(st, output_size) ==
    IF Ndim(st) = 2
    THEN [st EXCEPT !.plane = cv2_resize(st.plane, st.h, st.w, output_size[1], output_size[2]),
                    !.h = output_size[1],
                    !.w = output_size[2]]
    ELSE [st EXCEPT !.data = resize_batches(st.data, 0, st.h, st.w, output_size[1], output_size[2]),
                    !.h = output_size[1],
                    !.w = output_size[2]]

Clamp255(v) == Max2(0, Min2(255, v))

\* cv2.applyColorMap(COLORMAP_JET) followed by BGR -> RGB: the piecewise
\* linear jet ramp of a uint8 value, as an RGB triple
Jet(v) ==
    <<Clamp255(382 - Abs(4 * v - 765)),
      Clamp255(382 - Abs(4 * v - 510)),
      Clamp255(382 - Abs(4 * v - 255))>>

colormap(st) ==
    [st EXCEPT !.data = Array([i \in 1..Len(st.data) |->
                            Array([k \in 1..Len(st.data[i]) |-> Jet(st.data[i][k])])]),
               !.color = TRUE,
               !.dtype = "uint8"]

\* numpy broadcasting of the map stack (N, h, w, 3) against the image
\* (1, H, W, C): every trailing dimension must be equal or 1
Broadcastable(st, image) ==
    /\ (st.h = image.shape[2] \/ st.h = 1 \/ image.shape[2] = 1)
    /\ (st.w = image.shape[3] \/ st.w = 1 \/ image.shape[3] = 1)
    /\ (image.shape[4] = Channels \/ image.shape[4] = 1)

\* res = image * weight + map * (1 - weight); res[res > 255] = 255; uint8.
\* overlay_weight is carried in tenths.
BlendValue(v, imgval, weight) == Min2(255, (imgval * weight + v * (10 - weight)) \div 10)

overlay(st, image, weight) ==
    LET oh == Max2(st.h, image.shape[2])
        ow == Max2(st.w, image.shape[3])
    IN  [st EXCEPT
            !.data = Array([i \in 1..Len(st.data) |->
                        Array([k \in 1..(oh * ow) |->
                            LET y == IF st.h = 1 THEN 0 ELSE (k - 1) \div ow
                                x == IF st.w = 1 THEN 0 ELSE (k - 1) % ow
                                p == st.data[i][y * st.w + x + 1]
                            IN  <<BlendValue(p[1], image.val, weight),
                                  BlendValue(p[2], image.val, weight),
                                  BlendValue(p[3], image.val, weight)>>])]),
            !.h = oh,
            !.w = ow,
            !.dtype = "uint8"]

-----------------------------------------------------------------------------
(* openvino_xai/explainer/explanation.py: the Layout tags *)

ONE_MAP_PER_IMAGE_GRAY == "one_map_per_image_gray"
ONE_MAP_PER_IMAGE_COLOR == "one_map_per_image_color"
MULTIPLE_MAPS_PER_IMAGE_GRAY == "multiple_maps_per_image_gray"
MULTIPLE_MAPS_PER_IMAGE_COLOR == "multiple_maps_per_image_color"

GRAY_LAYOUTS == {ONE_MAP_PER_IMAGE_GRAY, MULTIPLE_MAPS_PER_IMAGE_GRAY}
COLOR_MAPPED_LAYOUTS == {ONE_MAP_PER_IMAGE_COLOR, MULTIPLE_MAPS_PER_IMAGE_COLOR}
ONE_MAP_LAYOUTS == {ONE_MAP_PER_IMAGE_GRAY, ONE_MAP_PER_IMAGE_COLOR}
MULTIPLE_MAP_LAYOUTS == {MULTIPLE_MAPS_PER_IMAGE_GRAY, MULTIPLE_MAPS_PER_IMAGE_COLOR}
Layouts == GRAY_LAYOUTS \cup COLOR_MAPPED_LAYOUTS

per_image_map == "per_image_map"

-----------------------------------------------------------------------------
(* openvino_xai/explainer/visualizer.py: class Visualizer                  *)
(*                                                                         *)
(* A call is threaded through a context c = [exc, layout, np, trace]: exc  *)
(* is "none" until a step raises, and every later step then leaves c as it *)
(* is (the exception propagates); layout is explanation.layout, which      *)
(* _apply_colormap assigns; np is the local saliency_map_np; trace logs    *)
(* each completed step with the dtype and color of the array it was given. *)

Raise(c, e) == [c EXCEPT !.exc = e]

Completed(c, op, st) ==
    [c EXCEPT !.np = st,
              !.trace = Append(@, [op |-> op, dtype |-> c.np.dtype, color |-> c.np.color])]

_apply_scaling(c) ==
    IF c.exc # "none" THEN c
    ELSE IF c.layout \notin GRAY_LAYOUTS THEN Raise(c, "ValueError")
    ELSE Completed(c, "scaling", scaling(c.np))

\* resize that does not rescale afterwards
_apply_resize_without_scaling(c, original_input_image, output_size) ==
    IF c.exc # "none" THEN c
    ELSE IF c.layout \notin GRAY_LAYOUTS THEN Raise(c, "ValueError")
    ELSE LET size == IF output_size # <<>> THEN output_size
                     ELSE infer_size_from_image(original_input_image)
         IN  Completed(c, "resize", resize(c.np, size))

_apply_resize(c, original_input_image, output_size) ==
    IF c.exc # "none" THEN c
    ELSE IF c.layout \notin GRAY_LAYOUTS THEN Raise(c, "ValueError")
    ELSE LET size == IF output_size # <<>> THEN output_size
                     ELSE infer_size_from_image(original_input_image)
         IN  \* Scaling has to be applied after resize to keep map in range 0..255
             _apply_scaling(Completed(c, "resize", resize(c.np, size)))

\* colormap that tags every result as one map per image
_apply_colormap_one_layout(c) ==
    IF c.exc # "none" THEN c
    ELSE IF c.np.dtype # "uint8" THEN Raise(c, "ValueError")
    ELSE IF c.layout \notin GRAY_LAYOUTS THEN Raise(c, "ValueError")
    ELSE [Completed(c, "colormap", colormap(c.np)) EXCEPT !.layout = ONE_MAP_PER_IMAGE_COLOR]

_apply_colormap(c) ==
    IF c.exc # "none" THEN c
    ELSE IF c.np.dtype # "uint8" THEN Raise(c, "ValueError")
    ELSE IF c.layout \notin GRAY_LAYOUTS THEN Raise(c, "ValueError")
    ELSE LET d == Completed(c, "colormap", colormap(c.np))
             l1 == IF d.layout = ONE_MAP_PER_IMAGE_GRAY
                   THEN ONE_MAP_PER_IMAGE_COLOR ELSE d.layout
             l2 == IF l1 = MULTIPLE_MAPS_PER_IMAGE_GRAY
                   THEN MULTIPLE_MAPS_PER_IMAGE_COLOR ELSE l1
         IN  [d EXCEPT !.layout = l2]

_apply_overlay(c, original_input_image, output_size, overlay_weight) ==
    IF c.exc # "none" THEN c
    ELSE IF c.layout \notin COLOR_MAPPED_LAYOUTS THEN Raise(c, "RuntimeError")
    ELSE LET image == IF output_size # <<>>
                      THEN [original_input_image EXCEPT
                               !.shape = <<1, output_size[1], output_size[2],
                                           original_input_image.shape[4]>>]
                      ELSE original_input_image
         IN  IF ~Broadcastable(c.np, image) THEN Raise(c, "ValueError")
             ELSE Completed(c, "overlay", overlay(c.np, image, overlay_weight))

\* the box metadata[Task.DETECTION][target] of a target
DetectionBox(target) ==
    IF target = "0" THEN <<0, 0, 1, 1>> ELSE <<1, 0, 2, 1>>

\* cv2.rectangle(saliency_map, (x1, y1), (x2, y2), color=(255, 0, 0)): the
\* pixels on the border of the box become red (the label text is not drawn
\* in the model)
DrawBox(px, h, w, box) ==
    [k \in 1..Len(px) |->
        LET y == (k - 1) \div w
            x == (k - 1) % w
            onBorder == /\ box[1] <= x /\ x <= box[3]
                        /\ box[2] <= y /\ y <= box[4]
                        /\ (x = box[1] \/ x = box[3] \/ y = box[2] \/ y = box[4])
        IN  IF onBorder THEN <<255, 0, 0>> ELSE px[k]]

_apply_metadata(c, metadata, indices) ==
    IF c.exc # "none" THEN c
    ELSE IF metadata.task # "detection" THEN Completed(c, "metadata", c.np)
    ELSE LET n == Min2(Len(c.np.data), Len(indices))
         IN  IF \E i \in 1..n : indices[i] \notin metadata.targets
             THEN Raise(c, "KeyError")
             ELSE Completed(c, "metadata",
                    [c.np EXCEPT !.data =
                        [i \in 1..Len(c.np.data) |->
                            IF i <= n
                            THEN DrawBox(c.np.data[i], c.np.h, c.np.w, DetectionBox(indices[i]))
                            ELSE c.np.data[i]]])

\* the stored map i of the processed stack
MapOf(st, i) == [px |-> st.data[i], h |-> st.h, w |-> st.w,
                 color |-> st.color, dtype |-> st.dtype]

\* write-back that pairs the targets with the maps in reverse
_update_explanation_reversed(expl, c, target_indices) ==
    IF c.exc # "none"
    THEN [expl |-> [expl EXCEPT !.layout = c.layout], outcome |-> c.exc, trace |-> c.trace]
    ELSE IF c.layout \in ONE_MAP_LAYOUTS
    THEN [expl |-> [expl EXCEPT !.layout = c.layout,
                                !.keys = <<per_image_map>>,
                                !.maps = <<MapOf(c.np, 1)>>],
          outcome |-> "returned", trace |-> c.trace]
    ELSE LET n == Min2(Len(target_indices), Len(c.np.data))
         IN  [expl |-> [expl EXCEPT !.layout = c.layout,
                                    !.keys = SubSeq(target_indices, 1, n),
                                    !.maps = [i \in 1..n |-> MapOf(c.np, n + 1 - i)]],
              outcome |-> "returned", trace |-> c.trace]

\* Writes the processed maps back.  The result is the Explanation after the
\* call together with the call's outcome and trace.
_update_explanation_with_processed_sal_map(expl, c, target_indices) ==
    IF c.exc # "none"
    THEN [expl |-> [expl EXCEPT !.layout = c.layout], outcome |-> c.exc, trace |-> c.trace]
    ELSE IF c.layout \in ONE_MAP_LAYOUTS
    THEN [expl |-> [expl EXCEPT !.layout = c.layout,
                                !.keys = <<per_image_map>>,
                                !.maps = <<MapOf(c.np, 1)>>],
          outcome |-> "returned", trace |-> c.trace]
    ELSE IF c.layout \in MULTIPLE_MAP_LAYOUTS
    THEN LET n == Min2(Len(target_indices), Len(c.np.data))
         IN  [expl |-> [expl EXCEPT !.layout = c.layout,
                                    !.keys = SubSeq(target_indices, 1, n),
                                    !.maps = [i \in 1..n |-> MapOf(c.np, i)]],
              outcome |-> "returned", trace |-> c.trace]
    ELSE [expl |-> expl, outcome |-> "ValueError", trace |-> c.trace]

\* np.array(list(saliency_map_dict.values()))
StackOf(expl) ==
    [data |-> Array([i \in 1..Len(expl.maps) |-> expl.maps[i].px]),
     h |-> expl.maps[1].h, w |-> expl.maps[1].w,
     color |-> expl.maps[1].color, dtype |-> expl.maps[1].dtype]

\* if scaling and not resize and not overlay
standalone_scaling(c, p) ==
    IF p.scaling /\ ~p.resize /\ ~p.overlay THEN _apply_scaling(c) ELSE c

\* overlay branch that resizes and colormaps only when their flags are set
overlay_branch_by_flags(c, metadata, indices, image, p) ==
    IF image.shape = <<>> THEN Raise(c, "ValueError")
    ELSE LET r == IF p.resize THEN _apply_resize(c, image, p.output_size) ELSE c
             m == IF p.colormap THEN _apply_colormap(r) ELSE r
         IN  _apply_metadata(
                _apply_overlay(m, image, p.output_size, p.overlay_weight),
                metadata, indices)

\* overlay branch that burns the metadata in before the overlay
overlay_branch_metadata_first(c, metadata, indices, image, p) ==
    IF image.shape = <<>> THEN Raise(c, "ValueError")
    ELSE _apply_overlay(
            _apply_metadata(
                _apply_colormap(_apply_resize(c, image, p.output_size)),
                metadata, indices),
            image, p.output_size, p.overlay_weight)

\* overlay branch that misses the image only when it comes to overlay it
overlay_branch_late_check(c, metadata, indices, image, p) ==
    IF image.shape = <<>> /\ p.output_size = <<>> THEN Raise(c, "ValueError")
    ELSE LET m == _apply_colormap(_apply_resize(c, image, p.output_size))
         IN  IF image.shape = <<>> THEN Raise(m, "ValueError")
             ELSE _apply_metadata(
                    _apply_overlay(m, image, p.output_size, p.overlay_weight),
                    metadata, indices)

\* the branch taken when overlay is requested
overlay_branch(c, metadata, indices, image, p) ==
    IF image.shape = <<>> THEN Raise(c, "ValueError")
    ELSE _apply_metadata(
            _apply_overlay(
                _apply_colormap(_apply_resize(c, image, p.output_size)),
                image, p.output_size, p.overlay_weight),
            metadata, indices)

\* the branch taken otherwise
plain_branch(c, image, p) ==
    LET r == IF p.resize
             THEN IF image.shape = <<>> /\ p.output_size = <<>>
                  THEN Raise(c, "ValueError")
                  ELSE _apply_resize(c, image, p.output_size)
             ELSE c
    IN  IF p.colormap THEN _apply_colormap(r) ELSE r

visualize(expl, p) ==
    LET image == IF p.original_input_image.shape # <<>>
                 THEN format_to_bhwc(p.original_input_image)
                 ELSE p.original_input_image
        indices_to_return == expl.keys
        c0 == [exc |-> "none", layout |-> expl.layout, np |-> StackOf(expl), trace |-> <<>>]
        c1 == standalone_scaling(c0, p)
        c2 == IF p.overlay
              THEN overlay_branch(c1, expl.metadata, indices_to_return, image, p)
              ELSE plain_branch(c1, image, p)
    IN  _update_explanation_with_processed_sal_map(expl, c2, indices_to_return)

-----------------------------------------------------------------------------
(* The Explanations visualize is given, and the arguments of a call *)

\* pixel k of the raw map of target number t: uint8 scores, float scores
\* that leave 0..255 on both sides, or a constant float map
RawPixel(kind, t, k) ==
    IF kind = "uint8" THEN (k * 67 + t * 29) % 256
    ELSE IF kind = "float32" THEN ((k * 167 + t * 29) % 400) - 100
    ELSE 7 + t

RawMap(kind, t) ==
    [px |-> [k \in 1..(MapH * MapW) |-> RawPixel(kind, t, k)],
     h |-> MapH, w |-> MapW, color |-> FALSE,
     dtype |-> IF kind = "uint8" THEN "uint8" ELSE "float32"]

MapKinds == {"uint8", "float32", "flat"}

\* explained targets, in the order of the saliency_map dict
Ascending(n) == [i \in 1..n |-> i - 1]
Descending(n) == [i \in 1..n |-> n + 1 - i]
TargetLists == {Descending(n) : n \in 1..MaxTargets} \cup {Ascending(MaxTargets)}

NoMetadata == [task |-> "none", targets |-> {}]

\* detection metadata with an entry for every target, or for target 0 only
DetectionMetadatas ==
    {[task |-> "detection", targets |-> {ToString(t) : t \in 0..MaxTargets}],
     [task |-> "detection", targets |-> {"0"}]}

MultipleMaps(ts, kind, md) ==
    [layout |-> MULTIPLE_MAPS_PER_IMAGE_GRAY,
     keys |-> [i \in 1..Len(ts) |-> ToString(ts[i])],
     maps |-> [i \in 1..Len(ts) |-> RawMap(kind, ts[i])],
     metadata |-> md]

\* Explanation.__init__: a grayscale layout, one map under per_image_map or
\* one map per target; a detection Explanation carries the box metadata
InitialExplanations ==
    {[layout |-> ONE_MAP_PER_IMAGE_GRAY, keys |-> <<per_image_map>>,
      maps |-> <<RawMap(kind, 0)>>, metadata |-> NoMetadata] : kind \in MapKinds}
    \cup {MultipleMaps(ts, kind, NoMetadata) : ts \in TargetLists, kind \in MapKinds}
    \cup {MultipleMaps(ts, "uint8", md) : ts \in TargetLists, md \in DetectionMetadatas}

None == [shape |-> <<>>, val |-> 0]
Image(shape) == [shape |-> shape, val |-> 200]

\* the images of spatial size h x w in the four accepted layouts
ImagesOfSize(h, w) ==
    {Image(<<h, w, Channels>>), Image(<<Channels, h, w>>),
     Image(<<1, h, w, Channels>>), Image(<<1, Channels, h, w>>)}

Images == {None} \cup ImagesOfSize(ImgH, ImgW) \cup {Image(<<ThinH, ImgW, Channels>>)}

OutputSizes == {<<>>, <<OutH, OutW>>, <<ImgW, ImgH>>}

Calls ==
    {[original_input_image |-> im, output_size |-> os, scaling |-> sc,
      resize |-> rs, colormap |-> cm, overlay |-> ov, overlay_weight |-> wt] :
        im \in Images, os \in OutputSizes, sc \in BOOLEAN, rs \in BOOLEAN,
        cm \in BOOLEAN, ov \in BOOLEAN, wt \in {5}}

NoCall == [original_input_image |-> None, output_size |-> <<>>, scaling |-> FALSE,
           resize |-> FALSE, colormap |-> FALSE, overlay |-> FALSE, overlay_weight |-> 5]

-----------------------------------------------------------------------------
(* Explainer: explain-mode selection                                       *)
(*                                                                         *)
(* An explain call is given a mode and meets a graph that is supported,    *)
(* has no resolvable target node, is unsupported by the method, or comes   *)
(* with malformed targets; postprocess_fn is supplied or not; the          *)
(* black-box run succeeds or fails.                                        *)

ExplainModes == {"AUTO", "WHITEBOX", "BLACKBOX"}

ExplainInputs ==
    [graph : {"supported", "no_target_node", "unsupported", "malformed_targets"},
     postprocess_fn : BOOLEAN,
     blackbox_ok : BOOLEAN,
     target : {"11", "14"}]

\* the error the white-box attempt ends with
WhiteBoxError(input) ==
    IF input.graph = "no_target_node" THEN "ResolutionError"
    ELSE IF input.graph = "unsupported" THEN "UnsupportedGraphError"
    ELSE IF input.graph = "malformed_targets" THEN "ValueError"
    ELSE "none"

\* resolution and compatibility failures are the only ones eligible for
\* the mode fallback
FallbackOnlyOnResolution(error) == error = "ResolutionError"

FallbackEligible(error) == error \in {"ResolutionError", "UnsupportedGraphError"}

NoResult == [derived |-> "none", error |-> "none"]

ExplainIdle ==
    /\ xmode = "AUTO"
    /\ xinput = [graph |-> "supported", postprocess_fn |-> FALSE,
                 blackbox_ok |-> TRUE, target |-> "11"]
    /\ xpc = "idle"
    /\ xattempts = <<>>
    /\ xresult = NoResult

\* explainer(image, targets): an explicit BLACKBOX request skips white-box
Explain(mode, input) ==
    /\ xpc \in {"idle", "returned", "raised"}
    /\ xmode' = mode
    /\ xinput' = input
    /\ xattempts' = <<>>
    /\ xresult' = NoResult
    /\ xpc' = IF mode = "BLACKBOX" THEN "black_box" ELSE "white_box"
    /\ UNCHANGED <<visVars, utilVars, riseVars, graphVars, arrayVars>>

\* branch insertion and the single forward pass
WhiteBox ==
    /\ xpc = "white_box"
    /\ xattempts' = Append(xattempts, "white_box")
    /\ LET error == WhiteBoxError(xinput)
       IN  IF error = "none"
           THEN /\ xpc' = "returned"
                /\ xresult' = [derived |-> "white_box", error |-> "none"]
           ELSE IF xmode = "AUTO" /\ FallbackEligible(error)
           THEN /\ xpc' = "black_box"
                /\ xresult' = xresult
           ELSE /\ xpc' = "raised"
                /\ xresult' = [derived |-> "none", error |-> error]
    /\ UNCHANGED <<xmode, xinput>>
    /\ UNCHANGED <<visVars, utilVars, riseVars, graphVars, arrayVars>>

\* the black-box method; its failure is fatal
BlackBox ==
    /\ xpc = "black_box"
    /\ IF ~xinput.postprocess_fn
       THEN /\ xattempts' = xattempts
            /\ xpc' = "raised"
            /\ xresult' = [derived |-> "none", error |-> "ValueError"]
       ELSE /\ xattempts' = Append(xattempts, "black_box")
            /\ IF xinput.blackbox_ok
               THEN /\ xpc' = "returned"
                    /\ xresult' = [derived |-> "black_box", error |-> "none"]
               ELSE /\ xpc' = "raised"
                    /\ xresult' = [derived |-> "none", error |-> "RuntimeError"]
    /\ UNCHANGED <<xmode, xinput>>
    /\ UNCHANGED <<visVars, utilVars, riseVars, graphVars, arrayVars>>

-----------------------------------------------------------------------------
(* openvino_xai/common/utils.py: scaling on a float array of any magnitude *)
(*                                                                         *)
(* An array is [dtype, unit, shape, flat]: shape is its numpy shape, flat  *)
(* its elements in row-major order.  An element n of a unit-carrying array *)
(* stands for the float32 value n * unit, unit being 1e-12 ("eps", the     *)
(* magnitude of the constant the divisor is given), 1 ("one") or 2^117     *)
(* ("huge", the magnitude at which 255 * x leaves float32).  The float32   *)
(* quotient is the record [num, den]: the exact quotient num / den,        *)
(* infinity for 1 / 0 and NaN for 0 / 0.                                   *)

Units == {"eps", "one", "huge"}

\* float32 holds magnitudes below 2^128 = Float32Limit * 2^117
Float32Limit == 2048

\* a float32 result of n units is infinite
Overflows(unit, n) == unit = "huge" /\ Abs(n) >= Float32Limit

\* the 1e-12 of the divisor, in units: float32 addition drops it from a
\* range of ordinary or huge magnitude
Epsilon(unit) == IF unit = "eps" THEN 1 ELSE 0

Zero == [num |-> 0, den |-> 1]
Inf == [num |-> 1, den |-> 0]
NaN == [num |-> 0, den |-> 0]

\* max_value * (x - min) / (max - min + 1e-12) in float32; a constant map
\* gives 0 / 1e-12
ScaleQuotient(x, mn, mx, unit) ==
    LET d == x - mn
        r == mx - mn
        num_inf == Overflows(unit, d) \/ Overflows(unit, 255 * d)
        den_inf == Overflows(unit, r)
    IN  IF num_inf /\ den_inf THEN NaN
        ELSE IF num_inf THEN Inf
        ELSE IF den_inf \/ r = 0 THEN Zero
        ELSE [num |-> 255 * d, den |-> r + Epsilon(unit)]

\* astype(np.uint8) truncates; of a non-finite value it gives what the
\* build's float-to-integer conversion gives
AsUint8(q, nonfinite) == IF q.den = 0 THEN nonfinite ELSE q.num \div q.den

\* np.squeeze: every axis of length one is removed
squeeze(shape) == SelectSeq(shape, LAMBDA n : n # 1)

\* scaling(saliency_map, cast_to_uint8): the array scaled map by map, or the
\* ValueError of the shape unpacking when the array is not 2D or 3D
scaling_array(saliency_map, cast_to_uint8, nonfinite) ==
    LET original_num_dims == Len(saliency_map.shape)
        shape == IF original_num_dims = 2 THEN <<1>> \o saliency_map.shape
                 ELSE saliency_map.shape
    IN  IF Len(shape) # 3 THEN [exc |-> "ValueError"]
        ELSE
        LET num_maps == shape[1]
            hw == shape[2] * shape[3]
            data == Array([i \in 1..num_maps |->
                        SubSeq(saliency_map.flat, (i - 1) * hw + 1, i * hw)])
            mm == get_min_max(data)
            scaled == Array([k \in 1..Len(saliency_map.flat) |->
                        LET i == (k - 1) \div hw + 1
                        IN  ScaleQuotient(saliency_map.flat[k], mm.mins[i], mm.maxs[i],
                                          saliency_map.unit)])
        IN  [exc |-> "none",
             dtype |-> IF cast_to_uint8 THEN "uint8" ELSE "float32",
             unit |-> "one",
             shape |-> IF original_num_dims = 2 THEN squeeze(shape) ELSE shape,
             flat |-> IF cast_to_uint8
                      THEN Array([k \in 1..Len(scaled) |-> AsUint8(scaled[k], nonfinite)])
                      ELSE scaled]

\* the values the maps are made of: negative, zero, small, above 255
ScaleValues == {-2, 0, 1, 1000}

\* the 2D and 3D shapes of n elements
ShapesOf(n) ==
    {<<h, w>> : h \in 1..n, w \in 1..n} \cup
    {<<m, h, w>> : m \in 1..n, h \in 1..n, w \in 1..n}

Product(shape) == IF Len(shape) = 2 THEN shape[1] * shape[2]
                  ELSE shape[1] * shape[2] * shape[3]

ScalingInputs ==
    UNION {
        {[dtype |-> "float32", unit |-> unit, shape |-> shape, flat |-> flat] :
            unit \in Units,
            shape \in {q \in ShapesOf(n) : Product(q) = n},
            flat \in [1..n -> ScaleValues]}
        : n \in 1..MaxPixels}

NoArray == [exc |-> "unset"]

\* what astype(np.uint8) makes of a non-finite value: 0 or 255, by platform
NonFinites == {0, 255}

ScalingIdle == [pc |-> "idle", saliency_map |-> NoArray, nonfinite |-> 0,
                cast_to_uint8 |-> TRUE, out |-> NoArray, again |-> NoArray]

\* scaling(saliency_map, cast_to_uint8)
Scaling(cast_to_uint8) ==
    /\ scal.pc = "start"
    /\ scal' = [scal EXCEPT !.pc = "scaled",
                        !.cast_to_uint8 = cast_to_uint8,
                        !.out = scaling_array(scal.saliency_map, cast_to_uint8, scal.nonfinite)]
    /\ UNCHANGED <<visVars, explainVars, tgt, riseVars, graphVars, arrayVars>>

\* scaling(scaling(saliency_map)): the uint8 result is scaled again
ScalingAgain ==
    /\ scal.pc = "scaled"
    /\ scal.out.dtype = "uint8"
    /\ scal' = [scal EXCEPT !.pc = "rescaled",
                        !.again = scaling_array(scal.out, TRUE, scal.nonfinite)]
    /\ UNCHANGED <<visVars, explainVars, tgt, riseVars, graphVars, arrayVars>>

-----------------------------------------------------------------------------
(* openvino_xai/explainer/utils.py: get_target_indices and explains_all    *)
(*                                                                         *)
(* A targets argument is [type, etype, ints, names]: the Python type of  *)
(* the argument ("int", "str", "list" or "ndarray"), the type of its       *)
(* elements, and the elements themselves, in ints when they are integers   *)
(* and in names when they are strings (a scalar has one).  label_names is  *)
(* the sequence of names, <<>> when it is None or empty.  Indices count    *)
(* from 0.                                                                 *)

Range(s) == {s[k] : k \in 1..Len(s)}

Elems(targets) == IF targets.etype = "int" THEN targets.ints ELSE targets.names

\* resolution that looks each requested name up, in the order of the request
get_target_indices_in_request_order(targets, label_names) ==
    IF Len(Elems(targets)) = 0 THEN [exc |-> "IndexError", indices |-> <<>>]
    ELSE IF targets.etype = "int" THEN [exc |-> "none", indices |-> targets.ints]
    ELSE IF label_names = <<>> THEN [exc |-> "ValueError", indices |-> <<>>]
    ELSE IF \E k \in 1..Len(targets.names) : targets.names[k] \notin Range(label_names)
         THEN [exc |-> "ValueError", indices |-> <<>>]
    ELSE [exc |-> "none",
          indices |-> Array([k \in 1..Len(targets.names) |->
              (CHOOSE j \in 1..Len(label_names) :
                  /\ label_names[j] = targets.names[k]
                  /\ \A i \in 1..(j - 1) : label_names[i] # targets.names[k]) - 1])]

\* np.atleast_1d(np.asarray(targets)), then: integer targets are returned
\* as they are; names are looked up by a pass over label_names that keeps
\* the index of every label found among the targets, and the number of
\* indices kept is compared with the number of targets
get_target_indices(targets, label_names) ==
    IF Len(Elems(targets)) = 0 THEN [exc |-> "IndexError", indices |-> <<>>]
    ELSE IF targets.etype = "int" THEN [exc |-> "none", indices |-> targets.ints]
    ELSE IF label_names = <<>> THEN [exc |-> "ValueError", indices |-> <<>>]
    ELSE LET target_indices ==
                 SelectSeq(Array([j \in 1..Len(label_names) |-> j - 1]),
                           LAMBDA label_index :
                               label_names[label_index + 1] \in Range(targets.names))
         IN  IF Len(targets.names) # Len(target_indices)
             THEN [exc |-> "ValueError", indices |-> <<>>]
             ELSE [exc |-> "none", indices |-> target_indices]

\* the sentinel test without the length check of a list
explains_all_first_element(targets) ==
    \/ targets.type = "int" /\ targets.ints[1] = -1
    \/ /\ targets.type \in {"ndarray", "list"}
       /\ targets.etype = "int"
       /\ Len(targets.ints) >= 1
       /\ targets.ints[1] = -1
    \/ targets.type = "str" /\ targets.names[1] = "-1"

explains_all(targets) ==
    \/ targets.type = "int" /\ targets.ints[1] = -1
    \/ /\ targets.type \in {"ndarray", "list"}
       /\ targets.etype = "int"
       /\ Len(targets.ints) = 1
       /\ targets.ints[1] = -1
    \/ targets.type = "str" /\ targets.names[1] = "-1"

\* names of the label table, and the names a caller may ask for
LabelNames == {"cat", "dog", "person"}
RequestedNames == LabelNames \cup {"bird", "-1"}
ClassIndices == {-1, 0, 2}

\* label tables, repeated names included (ImageNet has two "crane")
LabelTables == UNION {[1..n -> LabelNames] : n \in 0..MaxLabels}

TargetValues ==
    {[type |-> "int", etype |-> "int", ints |-> <<i>>, names |-> <<>>] :
        i \in ClassIndices}
    \cup {[type |-> "str", etype |-> "str", ints |-> <<>>, names |-> <<s>>] :
        s \in RequestedNames}
    \cup UNION {{[type |-> t, etype |-> "int", ints |-> e, names |-> <<>>] :
                    t \in {"list", "ndarray"}, e \in [1..n -> ClassIndices]}
                : n \in 0..MaxTargets}
    \cup UNION {{[type |-> "list", etype |-> "str", ints |-> <<>>, names |-> e] :
                    e \in [1..n -> RequestedNames]}
                : n \in 1..MaxTargets}

NoTargets == [type |-> "list", etype |-> "int", ints |-> <<>>, names |-> <<>>]
NoIndices == [exc |-> "none", indices |-> <<>>]

TargetsIdle == [pc |-> "idle", label_names |-> <<>>, targets |-> NoTargets,
                result |-> NoIndices]

UtilIdle == scal = ScalingIdle /\ tgt = TargetsIdle

\* get_target_indices(targets, label_names)
GetTargetIndices(targets) ==
    /\ tgt.pc = "start"
    /\ tgt' = [tgt EXCEPT !.pc = "resolved", !.targets = targets,
                        !.result = get_target_indices(targets, tgt.label_names)]
    /\ UNCHANGED <<visVars, explainVars, scal, riseVars, graphVars, arrayVars>>

\* explains_all(targets)
ExplainsAll(targets) ==
    /\ tgt.pc = "start"
    /\ tgt' = [tgt EXCEPT !.pc = "asked", !.targets = targets,
                        !.result = [exc |-> "none", all |-> explains_all(targets)]]
    /\ UNCHANGED <<visVars, explainVars, scal, riseVars, graphVars, arrayVars>>

-----------------------------------------------------------------------------
(* openvino_xai/methods/black_box/rise.py: class RISE                      *)
(*                                                                         *)
(* A call of generate_saliency_map has the arguments p = [data,            *)
(* target_indices, preset, num_masks, num_cells, prob, seed, scale_output].*)
(* An optional argument is <<>> for None and <<v>> for the value v; prob   *)
(* is given in tenths.  The running call is the record r (the variable     *)
(* rise): its position pc, the locals of _run_synchronous_explanation        *)
(* (num_masks, num_targets, input_size, rand_generator, saliency_maps and  *)
(* the loop count k) and its result.  nforward counts the forward passes   *)
(* the loop issued, failures the forward passes that failed, log the       *)
(* mask and scores of each trial of a call whose num_masks was given, and  *)
(* done the finished calls.                                                *)

Absent == <<>>
Some(v) == <<v>>

SPEED == "speed"
BALANCE == "balance"
QUALITY == "quality"

_preset_parameters(preset, num_masks) ==
    IF num_masks # Absent THEN [exc |-> "none", num_masks |-> num_masks[1]]
    ELSE IF preset = SPEED THEN [exc |-> "none", num_masks |-> 2000]
    ELSE IF preset = BALANCE THEN [exc |-> "none", num_masks |-> 5000]
    ELSE IF preset = QUALITY THEN [exc |-> "none", num_masks |-> 8000]
    ELSE [exc |-> "ValueError", num_masks |-> 0]

\* np.random.default_rng(seed): the generator is a stream of 16 states that
\* the seed places; every draw takes the next state
default_rng(seed) == seed % 16

NextDraw(generator) == (5 * generator + 3) % 16

RECURSIVE Advance(_, _)
Advance(generator, draws) ==
    IF draws = 0 THEN generator ELSE Advance(NextDraw(generator), draws - 1)

\* rand_generator.integers(0, high) read off a state of the stream
integers(generator, high) == (generator \div 2) % high

CeilDiv(a, b) == (a + b - 1) \div b

\* the mask of one trial and the generator after its draws.  cv2.resize
\* takes dsize as (width, height), so the up-sampled grid has up_size[1]
\* rows and up_size[0] columns; the crop keeps what the slices find there.
_generate_mask(input_size, num_cells, prob, rand_generator) ==
    LET cell_size == <<CeilDiv(input_size[1], num_cells), CeilDiv(input_size[2], num_cells)>>
        up_size == <<(num_cells + 1) * cell_size[1], (num_cells + 1) * cell_size[2]>>
        cells == num_cells * num_cells
        grid == Array([j \in 1..cells |->
                    IF 10 * Advance(rand_generator, j) < prob * 16 THEN 1 ELSE 0])
        x == integers(Advance(rand_generator, cells + 1), cell_size[1])
        y == integers(Advance(rand_generator, cells + 2), cell_size[2])
        up_h == up_size[2]
        up_w == up_size[1]
        upsampled_mask == cv2_resize(grid, num_cells, num_cells, up_h, up_w)
        rows == Max2(0, Min2(up_h, x + input_size[1]) - x)
        cols == Max2(0, Min2(up_w, y + input_size[2]) - y)
    IN  [shape |-> <<rows, cols>>,
         px |-> Array([i \in 1..(rows * cols) |->
                    Max2(0, Min2(1, upsampled_mask[(x + ((i - 1) \div cols)) * up_w
                                                   + y + ((i - 1) % cols) + 1]))]),
         generator |-> Advance(rand_generator, cells + 2)]

\* numpy broadcasting of a (rows, cols) mask against the (H, W) axes
BroadcastsTo(shape, input_size) ==
    /\ shape[1] \in {1, input_size[1]}
    /\ shape[2] \in {1, input_size[2]}

Broadcast(mask, input_size) ==
    Array([i \in 1..(input_size[1] * input_size[2]) |->
        LET row == IF mask.shape[1] = 1 THEN 0 ELSE (i - 1) \div input_size[2]
            col == IF mask.shape[2] = 1 THEN 0 ELSE (i - 1) % input_size[2]
        IN  mask.px[row * mask.shape[2] + col + 1]])

RECURSIVE SumSeq(_, _)
SumSeq(s, n) == IF n = 0 THEN 0 ELSE s[n] + SumSeq(s, n - 1)

\* model_forward and postprocess_fn: the scores of the masked input, one
\* per class, a function of the input alone
model_forward(masked) ==
    Array([c \in 1..NumClasses |-> (c + SumSeq(masked, Len(masked))) % 3])

\* get_num_classes: the width of the model output
get_num_classes == NumClasses

\* np.take(raw_scores, index): a negative index counts from the end
InRangeOf(raw_scores, index) == -Len(raw_scores) <= index /\ index < Len(raw_scores)
Take(raw_scores, index) ==
    IF index < 0 THEN raw_scores[Len(raw_scores) + index + 1] ELSE raw_scores[index + 1]

\* the scored mask with the scores taken in class order, whatever the targets
_get_scored_mask_in_class_order(raw_scores, mask, target_classes) ==
    IF target_classes # Absent
    THEN IF \E t \in 1..Len(target_classes[1]) : ~InRangeOf(raw_scores, target_classes[1][t])
         THEN [exc |-> "IndexError", maps |-> <<>>]
         ELSE [exc |-> "none",
               maps |-> Array([t \in 1..Len(target_classes[1]) |->
                           Array([i \in 1..Len(mask) |->
                               raw_scores[((t - 1) % Len(raw_scores)) + 1] * mask[i]])])]
    ELSE [exc |-> "none",
          maps |-> Array([c \in 1..Len(raw_scores) |->
                      Array([i \in 1..Len(mask) |-> raw_scores[c] * mask[i]])])]

_get_scored_mask(raw_scores, mask, target_classes) ==
    IF target_classes # Absent
    THEN IF \E t \in 1..Len(target_classes[1]) : ~InRangeOf(raw_scores, target_classes[1][t])
         THEN [exc |-> "IndexError", maps |-> <<>>]
         ELSE [exc |-> "none",
               maps |-> Array([t \in 1..Len(target_classes[1]) |->
                           Array([i \in 1..Len(mask) |->
                               Take(raw_scores, target_classes[1][t]) * mask[i]])])]
    ELSE [exc |-> "none",
          maps |-> Array([c \in 1..Len(raw_scores) |->
                      Array([i \in 1..Len(mask) |-> raw_scores[c] * mask[i]])])]

NoRiseResult == [exc |-> "none", kind |-> "none"]

\* the call ends with the exception e: nothing is returned
RiseRaised(r, e) ==
    LET result == [exc |-> e, kind |-> "none"]
    IN  [r EXCEPT !.pc = "raised", !.saliency_maps = <<>>, !.result = result,
                  !.done = Append(@, [p |-> r.p, log |-> r.log, result |-> result])]

\* a set-up that goes on with the generator the object already has
_run_synchronous_explanation_shared_generator(r, p, num_masks) ==
    LET shape == p.data.shape
        input_size == IF is_bhwc_layout(shape) THEN <<shape[2], shape[3]>>
                      ELSE <<shape[3], shape[4]>>
        num_targets == IF p.target_indices = Absent THEN get_num_classes
                       ELSE Len(p.target_indices[1])
    IN  [r EXCEPT !.pc = "loop", !.p = p, !.num_masks = num_masks,
                  !.input_size = input_size, !.num_targets = num_targets,
                  !.rand_generator = IF Len(r.done) = 0 THEN default_rng(p.seed) ELSE @,
                  !.saliency_maps = Array([t \in 1..num_targets |->
                        Array([i \in 1..(input_size[1] * input_size[2]) |-> 0])]),
                  !.k = 0, !.nforward = 0, !.failures = 0, !.log = <<>>,
                  !.result = NoRiseResult]

\* _run_synchronous_explanation up to its loop: the input size, the number
\* of targets, a generator of its own and the zeroed accumulator
_run_synchronous_explanation(r, p, num_masks) ==
    LET shape == p.data.shape
        input_size == IF is_bhwc_layout(shape) THEN <<shape[2], shape[3]>>
                      ELSE <<shape[3], shape[4]>>
        num_targets == IF p.target_indices = Absent THEN get_num_classes
                       ELSE Len(p.target_indices[1])
    IN  [r EXCEPT !.pc = "loop", !.p = p, !.num_masks = num_masks,
                  !.input_size = input_size, !.num_targets = num_targets,
                  !.rand_generator = default_rng(p.seed),
                  !.saliency_maps = Array([t \in 1..num_targets |->
                        Array([i \in 1..(input_size[1] * input_size[2]) |-> 0])]),
                  !.k = 0, !.nforward = 0, !.failures = 0, !.log = <<>>,
                  !.result = NoRiseResult]

\* a loop body that drops a failed trial and goes on with the next
trial_skipping_failures(r, fate) ==
    LET mask == _generate_mask(r.input_size, r.p.num_cells, r.p.prob, r.rand_generator)
        r1 == [r EXCEPT !.rand_generator = mask.generator]
    IN  IF ~BroadcastsTo(mask.shape, r.input_size) THEN RiseRaised(r1, "ValueError")
        ELSE IF fate # "ok" THEN [r1 EXCEPT !.nforward = @ + 1, !.k = @ + 1]
        ELSE
        LET masked == Broadcast(mask, r.input_size)
            raw_scores == model_forward(masked)
            sal == _get_scored_mask(raw_scores, masked, r.p.target_indices)
        IN  IF sal.exc # "none"
            THEN RiseRaised([r1 EXCEPT !.nforward = @ + 1], sal.exc)
            ELSE [r1 EXCEPT
                    !.saliency_maps = Array([t \in 1..Len(@) |->
                        Array([i \in 1..Len(@[t]) |-> @[t][i] + sal.maps[t][i]])]),
                    !.k = @ + 1,
                    !.nforward = @ + 1,
                    !.log = IF r.p.num_masks = Absent THEN @
                            ELSE Append(@, [mask |-> masked, shape |-> mask.shape,
                                            scores |-> raw_scores])]

\* one pass of the loop: the mask, the masked input, the forward pass, the
\* check of its output, the scored mask, the accumulation.  fate is what
\* the environment makes of the trial: "ok", "forward_raises", or "rejected"
\* when check_classification_output raises on the postprocess output
trial(r, fate) ==
    LET mask == _generate_mask(r.input_size, r.p.num_cells, r.p.prob, r.rand_generator)
        r1 == [r EXCEPT !.rand_generator = mask.generator]
    IN  IF ~BroadcastsTo(mask.shape, r.input_size) THEN RiseRaised(r1, "ValueError")
        ELSE IF fate # "ok" THEN RiseRaised([r1 EXCEPT !.nforward = @ + 1], "RuntimeError")
        ELSE
        LET masked == Broadcast(mask, r.input_size)
            raw_scores == model_forward(masked)
            sal == _get_scored_mask(raw_scores, masked, r.p.target_indices)
        IN  IF sal.exc # "none"
            THEN RiseRaised([r1 EXCEPT !.nforward = @ + 1], sal.exc)
            ELSE [r1 EXCEPT
                    !.saliency_maps = Array([t \in 1..Len(@) |->
                        Array([i \in 1..Len(@[t]) |-> @[t][i] + sal.maps[t][i]])]),
                    !.k = @ + 1,
                    !.nforward = @ + 1,
                    !.log = IF r.p.num_masks = Absent THEN @
                            ELSE Append(@, [mask |-> masked, shape |-> mask.shape,
                                            scores |-> raw_scores])]

RECURSIVE Flatten(_, _)
Flatten(maps, n) == IF n = 0 THEN <<>> ELSE Flatten(maps, n - 1) \o maps[n]

\* the targets in the order a dict first meets them
RECURSIVE DictKeys(_, _)
DictKeys(target_classes, n) ==
    IF n = 0 THEN <<>>
    ELSE LET keys == DictKeys(target_classes, n - 1)
         IN  IF target_classes[n] \in Range(keys) THEN keys
             ELSE Append(keys, target_classes[n])

\* {target_class: saliency_map for ... in zip(...)}: a later entry of the
\* same key replaces the earlier one
_reformat_as_dict(saliency_maps, target_classes) ==
    LET keys == DictKeys(target_classes, Len(target_classes))
    IN  [keys |-> keys,
         maps |-> Array([j \in 1..Len(keys) |->
             saliency_maps[CHOOSE t \in 1..Len(target_classes) :
                 /\ target_classes[t] = keys[j]
                 /\ \A u \in (t + 1)..Len(target_classes) : target_classes[u] # keys[j]]])]

\* the end of _run_synchronous_explanation and of generate_saliency_map:
\* an array (1, num_classes, H, W) for target_indices None, else a dict of
\* (H, W) maps, each given to scaling when scale_output is set
generate_saliency_map_result(r) ==
    LET H == r.input_size[1]
        W == r.input_size[2]
    IN  IF r.p.target_indices = Absent
        THEN LET stack == [dtype |-> "float64", unit |-> "one",
                           shape |-> <<r.num_targets, H, W>>,
                           flat |-> Flatten(r.saliency_maps, r.num_targets)]
                 out == IF r.p.scale_output THEN scaling_array(stack, TRUE, 0) ELSE stack
             IN  [exc |-> "none", kind |-> "ndarray", dtype |-> out.dtype,
                  shape |-> <<1>> \o out.shape, flat |-> out.flat]
        ELSE LET d == _reformat_as_dict(r.saliency_maps, r.p.target_indices[1])
                 ScaledEntry(px) ==
                     LET map == [dtype |-> "float64", unit |-> "one",
                                 shape |-> <<H, W>>, flat |-> px]
                         out == IF r.p.scale_output THEN scaling_array(map, TRUE, 0) ELSE map
                     IN  [dtype |-> out.dtype, shape |-> out.shape, flat |-> out.flat]
             IN  [exc |-> "none", kind |-> "dict", keys |-> d.keys,
                  maps |-> Array([j \in 1..Len(d.keys) |-> ScaledEntry(d.maps[j])])]

\* the inputs: (1, C, H, W) and (1, H, W, C) images of ones
RiseImage(shape) == [shape |-> shape, val |-> 1]

SquareImage == RiseImage(<<1, Channels, RiseSize, RiseSize>>)
WideImage == RiseImage(<<1, Channels, RiseSize, RiseSize + Channels>>)
FlatImage == RiseImage(<<1, Channels, 1, RiseSize>>)
BhwcImage == RiseImage(<<1, Channels + 1, Channels + 1, Channels>>)

RiseTargets == {Absent, Some(<<0>>), Some(<<1, 0>>), Some(<<1, 1>>), Some(<<-1>>),
                Some(<<NumClasses>>)}

\* the calls of a single generate_saliency_map
RiseCalls ==
    {[data |-> data, target_indices |-> target_indices, preset |-> BALANCE,
      num_masks |-> Some(num_masks), num_cells |-> num_cells, prob |-> prob,
      seed |-> seed, scale_output |-> scale_output] :
        data \in {SquareImage, WideImage, FlatImage, BhwcImage},
        target_indices \in RiseTargets,
        num_masks \in 0..MaxMasks, num_cells \in 1..2, prob \in {5, 10},
        seed \in {0, 1}, scale_output \in BOOLEAN}
    \cup
    {[data |-> SquareImage, target_indices |-> Some(<<0>>), preset |-> preset,
      num_masks |-> Absent, num_cells |-> 1, prob |-> 5,
      seed |-> 0, scale_output |-> FALSE] :
        preset \in {SPEED, BALANCE, QUALITY, "other"}}

\* the calls made again and again on one model and image
RepeatedCall(target_indices, seed, scale_output) ==
    [data |-> SquareImage, target_indices |-> target_indices, preset |-> BALANCE,
     num_masks |-> Some(MaxMasks), num_cells |-> 2, prob |-> 5,
     seed |-> seed, scale_output |-> scale_output]

RepeatedCalls ==
    {RepeatedCall(Some(<<1, 0>>), 0, FALSE), RepeatedCall(Some(<<1, 0>>), 1, FALSE),
     RepeatedCall(Absent, 0, TRUE)}

TrialOutcomes == {"ok", "forward_raises", "rejected"}

NoRiseCall == [data |-> RiseImage(<<>>), target_indices |-> Absent, preset |-> BALANCE,
               num_masks |-> Absent, num_cells |-> 1, prob |-> 5, seed |-> 0,
               scale_output |-> FALSE]

RiseIdleState ==
    [pc |-> "idle", p |-> NoRiseCall, num_masks |-> 0, num_targets |-> 0,
     input_size |-> <<0, 0>>, rand_generator |-> 0, saliency_maps |-> <<>>,
     k |-> 0, nforward |-> 0, failures |-> 0, log |-> <<>>,
     result |-> NoRiseResult, done |-> <<>>]

RiseIdle == rise = RiseIdleState

\* generate_saliency_map(data, target_indices, ...) on an object no call is
\* running on, the object having served fewer than max_calls calls
GenerateSaliencyMap(p, max_calls) ==
    /\ rise.pc \in {"idle", "returned", "raised"}
    /\ Len(rise.done) < max_calls
    /\ LET preset == _preset_parameters(p.preset, p.num_masks)
       IN  rise' = IF preset.exc # "none"
                 THEN RiseRaised([rise EXCEPT !.p = p, !.k = 0, !.nforward = 0,
                                            !.failures = 0, !.log = <<>>], preset.exc)
                 ELSE _run_synchronous_explanation(rise, p, preset.num_masks)
    /\ UNCHANGED <<visVars, explainVars, utilVars, graphVars, arrayVars>>

\* one trial of the loop
RiseTrial(fate) ==
    /\ rise.pc = "loop"
    /\ rise.k < rise.num_masks
    /\ LET r == trial(rise, fate)
       IN  rise' = [r EXCEPT
                !.failures = IF fate # "ok" /\ r.nforward > rise.nforward
                             THEN @ + 1 ELSE @]
    /\ UNCHANGED <<visVars, explainVars, utilVars, graphVars, arrayVars>>

\* the loop is over: the call returns
RiseReturn ==
    /\ rise.pc = "loop"
    /\ rise.k = rise.num_masks
    /\ LET result == generate_saliency_map_result(rise)
       IN  rise' = [rise EXCEPT !.pc = "returned", !.saliency_maps = <<>>,
                            !.result = result,
                            !.done = Append(@, [p |-> rise.p, log |-> rise.log,
                                                result |-> result])]
    /\ UNCHANGED <<visVars, explainVars, utilVars, graphVars, arrayVars>>

-----------------------------------------------------------------------------
(* openvino_xai/insertion/parse_model.py: IRParser and IRParserCls         *)
(*                                                                         *)
(* A model is ops, the sequence of its nodes in topological order          *)
(* (model.get_ordered_ops()).  A node is [name, type, outputs, shape,      *)
(* inputs]: its friendly name, its type name, the number of its outputs,   *)
(* the (static) shape of its output 0, and for each of its inputs the      *)
(* position in ops of the node the input comes from; the shape of an input *)
(* is the shape of that node's output.  A node is referred to by its       *)
(* position in ops, and None is position 0.  An optional argument is <<>>  *)
(* for None and <<v>> for the value v.                                     *)

NoNode == 0

CNN == "cnn"
TRANSFORMER == "transformer"

\* model.get_ordered_ops()[::-1], as positions
reversed_ops(ops) == Array([j \in 1..Len(ops) |-> Len(ops) + 1 - j])

\* get_node_by_condition: k is counted down at every node that satisfies the
\* condition and the node at which it reaches 0 is returned; matches is the
\* sequence of the nodes that satisfy the condition, in the order searched
get_node_by_condition(matches, k) ==
    IF k >= 1 /\ Len(matches) >= k THEN matches[k] ELSE NoNode

\* the (C, H, W) read at indices 1, 2, 3 of a shape
_is_op_w_single_spacial_output(ops, i) ==
    IF ops[i].type = "Constant" THEN FALSE
    ELSE IF ops[i].outputs > 1 THEN FALSE
    ELSE IF Len(ops[i].shape) # 4 THEN FALSE
    ELSE LET c == ops[i].shape[2]
             h == ops[i].shape[3]
             w == ops[i].shape[4]
         IN  1 < h /\ h < c /\ 1 < w /\ w < c

\* (h != 1 and w != 1) read as NCHW or as NHWC, of a rank-4 output
_has_spacial_size(ops, i) ==
    \/ (ops[i].shape[3] # 1 /\ ops[i].shape[4] # 1)
    \/ (ops[i].shape[2] # 1 /\ ops[i].shape[3] # 1)

\* "Pool" in op.get_friendly_name()
NameHasPool(name) == name \in {"GlobalPool"}

_is_pooling_node_wo_spacial_size(ops, i) ==
    IF ~NameHasPool(ops[i].name) THEN FALSE
    ELSE IF _has_spacial_size(ops, i) THEN FALSE
    ELSE TRUE

\* an Add node, whatever its inputs
_is_add_node(ops, i) == ops[i].type = "Add"

_is_add_node_w_two_non_constant_inputs(ops, i) ==
    IF ops[i].type # "Add" THEN FALSE
    ELSE \A j \in 1..Len(ops[i].inputs) :
            LET source == ops[ops[i].inputs[j]]
            IN  /\ Len(source.shape) = 3
                /\ source.type # "Constant"
                /\ source.type # "Convert"

Returned(i) == [exc |-> "none", msg |-> "", node |-> i]
Raised(e, msg) == [exc |-> e, msg |-> msg, node |-> NoNode]

\* a name is given when it is not None and not the empty string
Given(target_node_name) == target_node_name # <<>> /\ target_node_name[1] # ""

\* the search of get_target_node for a node of the given name
find_by_name(ops, target_node_name) ==
    LET target_node == get_node_by_condition(
            SelectSeq(reversed_ops(ops), LAMBDA i : ops[i].name = target_node_name[1]), 1)
    IN  IF target_node # NoNode THEN Returned(target_node)
        ELSE Raised("ValueError", "Cannot find node")

\* get_post_target_node(model, model_type, target_node_name): the list of
\* nodes it returns, or the error it raises
get_post_target_node(ops, model_type, target_node_name) ==
    IF Given(target_node_name)
    THEN LET target == find_by_name(ops, target_node_name)
         IN  IF target.exc # "none" THEN [exc |-> target.exc, msg |-> target.msg, nodes |-> <<>>]
             ELSE [exc |-> "none", msg |-> "",
                   nodes |-> SelectSeq(Array([j \in 1..Len(ops) |-> j]),
                                       LAMBDA j : \E n \in 1..Len(ops[j].inputs) :
                                                      ops[j].inputs[n] = target.node)]
    ELSE IF model_type = <<CNN>>
            /\ get_node_by_condition(
                   SelectSeq(reversed_ops(ops),
                             LAMBDA i : _is_pooling_node_wo_spacial_size(ops, i)), 1) # NoNode
    THEN [exc |-> "none", msg |-> "",
          nodes |-> <<get_node_by_condition(
                        SelectSeq(reversed_ops(ops),
                                  LAMBDA i : _is_pooling_node_wo_spacial_size(ops, i)), 1)>>]
    ELSE [exc |-> "RuntimeError", msg |-> "please explicitly provide input parameters",
          nodes |-> <<>>]

\* the end of get_target_node when nothing was returned
NoBackboneNode == Raised("RuntimeError", "please provide target_layer")

\* get_target_node whose name search counts k matches
get_target_node_name_by_rank(ops, model_type, target_node_name, k) ==
    IF Given(target_node_name)
    THEN LET target_node == get_node_by_condition(
                 SelectSeq(reversed_ops(ops), LAMBDA i : ops[i].name = target_node_name[1]), k)
         IN  IF target_node # NoNode THEN Returned(target_node)
             ELSE Raised("ValueError", "Cannot find node")
    ELSE IF model_type = <<TRANSFORMER>>
    THEN LET target_node == get_node_by_condition(
                 SelectSeq(reversed_ops(ops),
                           LAMBDA i : _is_add_node_w_two_non_constant_inputs(ops, i)), k)
         IN  IF target_node # NoNode THEN Returned(target_node) ELSE NoBackboneNode
    ELSE NoBackboneNode

\* get_target_node that returns whatever its searches return
get_target_node_unchecked(ops, model_type, target_node_name, k) ==
    IF Given(target_node_name)
    THEN Returned(get_node_by_condition(
             SelectSeq(reversed_ops(ops), LAMBDA i : ops[i].name = target_node_name[1]), 1))
    ELSE IF model_type = <<TRANSFORMER>>
    THEN Returned(get_node_by_condition(
             SelectSeq(reversed_ops(ops),
                       LAMBDA i : _is_add_node_w_two_non_constant_inputs(ops, i)), k))
    ELSE NoBackboneNode

\* get_target_node(model, model_type, target_node_name, k).  In the CNN
\* branch get_post_target_node is called with the model alone, so with
\* model_type None; what it returns is a list, which has no input().
get_target_node(ops, model_type, target_node_name, k) ==
    IF Given(target_node_name) THEN find_by_name(ops, target_node_name)
    ELSE
    LET last_op_w_spacial_output ==
            get_node_by_condition(
                SelectSeq(reversed_ops(ops),
                          LAMBDA i : _is_op_w_single_spacial_output(ops, i)), k)
        post_target_node == get_post_target_node(ops, <<>>, <<>>)
        target_node ==
            get_node_by_condition(
                SelectSeq(reversed_ops(ops),
                          LAMBDA i : _is_add_node_w_two_non_constant_inputs(ops, i)), k)
    IN  IF model_type = <<CNN>> /\ last_op_w_spacial_output # NoNode
        THEN Returned(last_op_w_spacial_output)
        ELSE IF model_type = <<CNN>> /\ post_target_node.exc # "none"
        THEN Raised(post_target_node.exc, post_target_node.msg)
        ELSE IF model_type = <<CNN>>
        THEN Raised("AttributeError", "list has no input")
        ELSE IF model_type = <<TRANSFORMER>> /\ target_node # NoNode
        THEN Returned(target_node)
        ELSE NoBackboneNode

\* the kinds of node the models are made of: a convolution with a spatial
\* feature map, a feature map as wide as it is deep, a global pooling, a
\* two-output node named like the convolution, constants of rank 4 and 3, a
\* type conversion, a token block and a residual Add
NodeKinds ==
    {[name |-> "conv", type |-> "Convolution", outputs |-> 1, shape |-> <<1, 8, 4, 4>>, wiring |-> 1],
     [name |-> "feat", type |-> "Relu", outputs |-> 1, shape |-> <<1, 4, 4, 4>>, wiring |-> 1],
     [name |-> "GlobalPool", type |-> "ReduceMean", outputs |-> 1, shape |-> <<1, 8, 1, 1>>, wiring |-> 1],
     [name |-> "conv", type |-> "Split", outputs |-> 2, shape |-> <<1, 8, 4, 4>>, wiring |-> 1],
     [name |-> "weights", type |-> "Constant", outputs |-> 1, shape |-> <<1, 8, 4, 4>>, wiring |-> 0],
     [name |-> "bias", type |-> "Constant", outputs |-> 1, shape |-> <<1, 5, 8>>, wiring |-> 0],
     [name |-> "convert", type |-> "Convert", outputs |-> 1, shape |-> <<1, 5, 8>>, wiring |-> 1],
     [name |-> "block", type |-> "MatMul", outputs |-> 1, shape |-> <<1, 5, 8>>, wiring |-> 1],
     [name |-> "add", type |-> "Add", outputs |-> 1, shape |-> <<1, 5, 8>>, wiring |-> 2]}

\* the input of the model: an image, or a sequence of tokens
ParameterKinds ==
    {[name |-> "input", type |-> "Parameter", outputs |-> 1, shape |-> <<1, 3, 8, 8>>, wiring |-> 0],
     [name |-> "tokens", type |-> "Parameter", outputs |-> 1, shape |-> <<1, 5, 8>>, wiring |-> 0]}

\* the nodes wired: a node of one input takes the node before it, an Add the
\* two nodes before it
BuildOps(kinds) ==
    Array([i \in 1..Len(kinds) |->
        [name |-> kinds[i].name, type |-> kinds[i].type, outputs |-> kinds[i].outputs,
         shape |-> kinds[i].shape,
         inputs |-> IF kinds[i].wiring = 0 THEN <<>>
                    ELSE IF kinds[i].wiring = 1 THEN <<i - 1>>
                    ELSE <<i - 1, Max2(1, i - 2)>>]])

\* models of a Parameter followed by up to MaxNodes nodes
Models ==
    {BuildOps(<<parameter>> \o kinds) :
        parameter \in ParameterKinds,
        kinds \in UNION {[1..n -> NodeKinds] : n \in 0..MaxNodes}}

ModelTypes == {<<>>, <<CNN>>, <<TRANSFORMER>>}
TargetNodeNames == {<<>>, <<"">>, <<"conv">>, <<"head">>}
\* k, from 0 to one more than the candidates a model can have
Ranks == 0..MaxNodes

TargetNodeIdle ==
    [pc |-> "idle", ops |-> <<>>, model_type |-> <<>>, target_node_name |-> <<>>,
     k |-> 1, result |-> Returned(NoNode)]

\* IRParserCls.get_target_node(model, model_type, target_node_name, k)
GetTargetNode(model_type, target_node_name, k) ==
    /\ node.pc = "start"
    /\ node' = [node EXCEPT !.pc = "resolved", !.model_type = model_type,
                            !.target_node_name = target_node_name, !.k = k,
                            !.result = get_target_node(node.ops, model_type,
                                                       target_node_name, k)]
    /\ UNCHANGED <<visVars, explainVars, utilVars, riseVars, xai, arrayVars>>

-----------------------------------------------------------------------------
(* has_xai (common/utils.py) and insert_xai                                *)
(*                                                                         *)
(* An object handed to has_xai is [is_model, outputs]: whether it is an    *)
(* ov.Model, and the set of names of each of its outputs, in order.        *)

SALIENCY_MAP_OUTPUT_NAME == "saliency_map"

\* has_xai that looks at the last output only
has_xai_last_output(model) ==
    IF ~model.is_model THEN [exc |-> "ValueError", value |-> FALSE, model |-> model]
    ELSE [exc |-> "none",
          value |-> Len(model.outputs) > 0
                    /\ SALIENCY_MAP_OUTPUT_NAME \in model.outputs[Len(model.outputs)],
          model |-> model]

\* has_xai(model): the exception or the value returned, and the model as
\* the call leaves it
has_xai(model) ==
    IF ~model.is_model THEN [exc |-> "ValueError", value |-> FALSE, model |-> model]
    ELSE [exc |-> "none",
          value |-> \E i \in 1..Len(model.outputs) :
                        SALIENCY_MAP_OUTPUT_NAME \in model.outputs[i],
          model |-> model]

\* insert_xai(model, task): the model with the saliency branch appended as a
\* new output named "saliency_map", the existing outputs untouched
insert_xai(model) ==
    [model EXCEPT !.outputs = Append(@, {SALIENCY_MAP_OUTPUT_NAME})]

OutputNames == {{}, {"logits"}, {"saliency_map"}, {"logits", "saliency_map"}}

\* models of up to MaxOutputs outputs, and objects that are not an ov.Model
XaiObjects ==
    {[is_model |-> m, outputs |-> o] :
        m \in BOOLEAN, o \in UNION {[1..n -> OutputNames] : n \in 0..MaxOutputs}}

XaiIdle ==
    [pc |-> "idle", model |-> [is_model |-> FALSE, outputs |-> <<>>],
     before |-> [is_model |-> FALSE, outputs |-> <<>>], inserted |-> FALSE,
     result |-> [exc |-> "none", value |-> FALSE]]

\* model_xai = insert_xai(model, task)
InsertXai ==
    /\ xai.pc = "start"
    /\ xai.model.is_model
    /\ xai' = [xai EXCEPT !.pc = "inserted", !.model = insert_xai(xai.model),
                          !.inserted = TRUE]
    /\ UNCHANGED <<visVars, explainVars, utilVars, riseVars, node, arrayVars>>

\* has_xai(model)
HasXai ==
    /\ xai.pc \in {"start", "inserted"}
    /\ LET r == has_xai(xai.model)
       IN  xai' = [xai EXCEPT !.pc = "asked", !.before = xai.model, !.model = r.model,
                              !.result = [exc |-> r.exc, value |-> r.value]]
    /\ UNCHANGED <<visVars, explainVars, utilVars, riseVars, node, arrayVars>>

GraphIdle == node = TargetNodeIdle /\ xai = XaiIdle

-----------------------------------------------------------------------------
(* The array functions on their own: RISE._generate_mask, resize and        *)
(* format_to_bhwc                                                           *)

MaskIdle ==
    [pc |-> "idle", input_size |-> <<1, 1>>, num_cells |-> 1, prob |-> 5,
     generator |-> 0, mask |-> [shape |-> <<0, 0>>, px |-> <<>>, generator |-> 0]]

\* input sizes, square or not
InputSizes == (1..MaxSide) \X (1..MaxSide)

\* probabilities of a cell, in tenths
Probs == {0, 5, 10}

\* mask = self._generate_mask(input_size, num_cells, prob, rand_generator)
GenerateMask(prob) ==
    /\ msk.pc = "start"
    /\ msk' = [msk EXCEPT !.pc = "generated", !.prob = prob,
                          !.mask = _generate_mask(msk.input_size, msk.num_cells, prob,
                                                  msk.generator)]
    /\ UNCHANGED <<visVars, explainVars, utilVars, riseVars, graphVars, rsz, lay>>

\* pixel k of channel c of the stacks resize is given
ChannelPixel(c, k) == (3 * c + k) % 256

\* a (C, h, w) stack and a (h, w) map
Stack(C, h, w) ==
    [ndim |-> 3, h |-> h, w |-> w,
     data |-> Array([c \in 1..C |-> Array([k \in 1..(h * w) |-> ChannelPixel(c, k)])])]

Map2D(h, w) ==
    [ndim |-> 2, h |-> h, w |-> w, plane |-> Array([k \in 1..(h * w) |-> ChannelPixel(1, k)])]

\* channel counts around the batch boundaries
ChannelCounts ==
    {1, 2, batch_size - 1, batch_size, batch_size + 1,
     MaxBatches * batch_size, MaxBatches * batch_size + 1}

ResizeInputs ==
    {Stack(C, h, w) : C \in ChannelCounts, h \in 1..MapH, w \in 1..MapW}
    \cup {Map2D(h, w) : h \in 1..MapH, w \in 1..MapW}

ResizeSizes == (1..OutH) \X (1..OutW)

ResizeIdle ==
    [pc |-> "idle", saliency_map |-> Map2D(1, 1), output_size |-> <<1, 1>>,
     batches |-> <<>>, out |-> Map2D(1, 1)]

\* resized_map = resize(saliency_map, output_size)
Resize(output_size) ==
    /\ rsz.pc = "start"
    /\ rsz' = [rsz EXCEPT !.pc = "resized", !.output_size = output_size,
                          !.batches = IF rsz.saliency_map.ndim = 2 THEN <<>>
                                      ELSE batch_ranges(Len(rsz.saliency_map.data), 0),
                          !.out = resize(rsz.saliency_map, output_size)]
    /\ UNCHANGED <<visVars, explainVars, utilVars, riseVars, graphVars, msk, lay>>

\* images of three and of four dimensions
ImageShapes ==
    {<<a, b, c>> : a \in 1..MaxDim, b \in 1..MaxDim, c \in 1..MaxDim}
    \cup {<<n, a, b, c>> : n \in 1..2, a \in 1..MaxDim, b \in 1..MaxDim, c \in 1..MaxDim}

LayoutIdle ==
    [pc |-> "idle", image |-> [shape |-> <<1, 1, 1>>, val |-> 0],
     out |-> [shape |-> <<1, 1, 1, 1>>, val |-> 0],
     again |-> [shape |-> <<1, 1, 1, 1>>, val |-> 0]]

\* image = format_to_bhwc(image)
FormatToBhwc ==
    /\ lay.pc = "start"
    /\ lay' = [lay EXCEPT !.pc = "formatted", !.out = format_to_bhwc(lay.image)]
    /\ UNCHANGED <<visVars, explainVars, utilVars, riseVars, graphVars, msk, rsz>>

\* format_to_bhwc applied to its own result
FormatAgain ==
    /\ lay.pc = "formatted"
    /\ lay' = [lay EXCEPT !.pc = "again", !.again = format_to_bhwc(lay.out)]
    /\ UNCHANGED <<visVars, explainVars, utilVars, riseVars, graphVars, msk, rsz>>

ArrayIdle == msk = MaskIdle /\ rsz = ResizeIdle /\ lay = LayoutIdle

-----------------------------------------------------------------------------
(* Visualizer.visualize on one Explanation, call after call *)

\* a call is made on an Explanation no call is in progress on
Visualize(p) ==
    /\ outcome = "none"
    /\ ncalls < MaxCalls
    /\ LET r == visualize(explanation, p)
       IN  /\ explanation' = r.expl
           /\ call' = p
           /\ pre' = explanation
           /\ outcome' = r.outcome
           /\ trace' = r.trace
    /\ ncalls' = ncalls + 1
    /\ UNCHANGED <<explainVars, utilVars, riseVars, graphVars, arrayVars>>

\* the caller has the call's result or exception and keeps the Explanation
Release ==
    /\ outcome # "none"
    /\ call' = NoCall
    /\ pre' = explanation
    /\ outcome' = "none"
    /\ trace' = <<>>
    /\ UNCHANGED <<explanation, ncalls>>
    /\ UNCHANGED <<explainVars, utilVars, riseVars, graphVars, arrayVars>>

Init ==
    /\ explanation \in InitialExplanations
    /\ call = NoCall
    /\ pre = explanation
    /\ outcome = "none"
    /\ trace = <<>>
    /\ ncalls = 0
    /\ ExplainIdle
    /\ UtilIdle
    /\ RiseIdle
    /\ GraphIdle
    /\ ArrayIdle

Next ==
    \/ \E p \in Calls : Visualize(p)
    \/ Release

Spec == Init /\ [][Next]_vars

InitExplain ==
    /\ explanation = [layout |-> ONE_MAP_PER_IMAGE_GRAY, keys |-> <<per_image_map>>,
                      maps |-> <<RawMap("uint8", 0)>>, metadata |-> NoMetadata]
    /\ call = NoCall
    /\ pre = explanation
    /\ outcome = "none"
    /\ trace = <<>>
    /\ ncalls = 0
    /\ ExplainIdle
    /\ UtilIdle
    /\ RiseIdle
    /\ GraphIdle
    /\ ArrayIdle

NextExplain ==
    \/ \E mode \in ExplainModes, input \in ExplainInputs : Explain(mode, input)
    \/ WhiteBox
    \/ BlackBox

SpecExplain == InitExplain /\ [][NextExplain]_vars

\* the Visualizer and the Explainer at rest
VisualizerIdle ==
    /\ explanation = [layout |-> ONE_MAP_PER_IMAGE_GRAY, keys |-> <<per_image_map>>,
                      maps |-> <<RawMap("uint8", 0)>>, metadata |-> NoMetadata]
    /\ call = NoCall
    /\ pre = explanation
    /\ outcome = "none"
    /\ trace = <<>>
    /\ ncalls = 0

-----------------------------------------------------------------------------
(* scaling applied to one array, once and then to its own result *)

InitScaling ==
    /\ VisualizerIdle
    /\ ExplainIdle
    /\ RiseIdle
    /\ GraphIdle
    /\ ArrayIdle
    /\ tgt = TargetsIdle
    /\ \E a \in ScalingInputs, nonfinite \in NonFinites :
           scal = [ScalingIdle EXCEPT !.pc = "start", !.saliency_map = a,
                                    !.nonfinite = nonfinite]

NextScaling ==
    \/ \E cast_to_uint8 \in BOOLEAN : Scaling(cast_to_uint8)
    \/ ScalingAgain

SpecScaling == InitScaling /\ [][NextScaling]_vars

-----------------------------------------------------------------------------
(* get_target_indices and explains_all applied to one targets argument *)

InitTargets ==
    /\ VisualizerIdle
    /\ ExplainIdle
    /\ RiseIdle
    /\ GraphIdle
    /\ ArrayIdle
    /\ scal = ScalingIdle
    /\ \E names \in LabelTables :
           tgt = [TargetsIdle EXCEPT !.pc = "start", !.label_names = names]

NextTargets ==
    \/ \E targets \in TargetValues : GetTargetIndices(targets)
    \/ \E targets \in TargetValues : ExplainsAll(targets)

SpecTargets == InitTargets /\ [][NextTargets]_vars

-----------------------------------------------------------------------------
(* RISE: one generate_saliency_map call, and calls repeated on one object *)

InitRise ==
    /\ VisualizerIdle
    /\ ExplainIdle
    /\ UtilIdle
    /\ RiseIdle
    /\ GraphIdle
    /\ ArrayIdle

NextRiseCall ==
    \/ \E p \in RiseCalls : GenerateSaliencyMap(p, 1)
    \/ \E fate \in TrialOutcomes : RiseTrial(fate)
    \/ RiseReturn

SpecRiseCall == InitRise /\ [][NextRiseCall]_vars

NextRise ==
    \/ \E p \in RepeatedCalls : GenerateSaliencyMap(p, MaxRiseCalls)
    \/ \E fate \in TrialOutcomes : RiseTrial(fate)
    \/ RiseReturn

SpecRise == InitRise /\ [][NextRise]_vars

-----------------------------------------------------------------------------
(* get_target_node on a model graph *)

InitTargetNode ==
    /\ VisualizerIdle
    /\ ExplainIdle
    /\ UtilIdle
    /\ RiseIdle
    /\ ArrayIdle
    /\ xai = XaiIdle
    /\ node \in {[TargetNodeIdle EXCEPT !.pc = "start", !.ops = ops] : ops \in Models}

NextTargetNode ==
    \E model_type \in ModelTypes, target_node_name \in TargetNodeNames, k \in Ranks :
        GetTargetNode(model_type, target_node_name, k)

SpecTargetNode == InitTargetNode /\ [][NextTargetNode]_vars

-----------------------------------------------------------------------------
(* has_xai before and after insert_xai *)

InitHasXai ==
    /\ VisualizerIdle
    /\ ExplainIdle
    /\ UtilIdle
    /\ RiseIdle
    /\ ArrayIdle
    /\ node = TargetNodeIdle
    /\ xai \in {[XaiIdle EXCEPT !.pc = "start", !.model = m, !.before = m] : m \in XaiObjects}

NextHasXai ==
    \/ InsertXai
    \/ HasXai

SpecHasXai == InitHasXai /\ [][NextHasXai]_vars

-----------------------------------------------------------------------------
(* _generate_mask on every input size and state of the generator *)

InitMask ==
    /\ VisualizerIdle
    /\ ExplainIdle
    /\ UtilIdle
    /\ RiseIdle
    /\ GraphIdle
    /\ rsz = ResizeIdle
    /\ lay = LayoutIdle
    /\ msk \in {[MaskIdle EXCEPT !.pc = "start", !.input_size = s, !.num_cells = n,
                                 !.generator = g] :
                    s \in InputSizes, n \in 1..MaxCells, g \in 0..15}

NextMask == \E prob \in Probs : GenerateMask(prob)

SpecMask == InitMask /\ [][NextMask]_vars

-----------------------------------------------------------------------------
(* resize on stacks and on single maps *)

InitResize ==
    /\ VisualizerIdle
    /\ ExplainIdle
    /\ UtilIdle
    /\ RiseIdle
    /\ GraphIdle
    /\ msk = MaskIdle
    /\ lay = LayoutIdle
    /\ rsz \in {[ResizeIdle EXCEPT !.pc = "start", !.saliency_map = m] : m \in ResizeInputs}

NextResize == \E output_size \in ResizeSizes : Resize(output_size)

SpecResize == InitResize /\ [][NextResize]_vars

-----------------------------------------------------------------------------
(* format_to_bhwc on every image shape *)

InitLayout ==
    /\ VisualizerIdle
    /\ ExplainIdle
    /\ UtilIdle
    /\ RiseIdle
    /\ GraphIdle
    /\ msk = MaskIdle
    /\ rsz = ResizeIdle
    /\ lay \in {[LayoutIdle EXCEPT !.pc = "start", !.image = [shape |-> s, val |-> 0]] :
                    s \in ImageShapes}

NextLayout ==
    \/ FormatToBhwc
    \/ FormatAgain

SpecLayout == InitLayout /\ [][NextLayout]_vars

-----------------------------------------------------------------------------
(* Claims *)

\* the explain call has ended, by returning or by raising
ExplainEnded == xpc \in {"returned", "raised"}

BlackBoxAttempts == Cardinality({i \in 1..Len(xattempts) : xattempts[i] = "black_box"})

\* C1: in AUTO mode the white-box path is attempted first; when it fails with
\* an unresolvable target node or an unsupported graph and postprocess_fn was
\* supplied, the call runs the black-box method and returns a black-box
\* Explanation without raising; black-box is attempted at most once and only
\* after a white-box failure, and its failure ends the call with that error.
C1_AutoFallback ==
    xmode = "AUTO" =>
        /\ xattempts # <<>> => xattempts[1] = "white_box"
        /\ BlackBoxAttempts <= 1
        /\ BlackBoxAttempts = 1 =>
              /\ xattempts = <<"white_box", "black_box">>
              /\ WhiteBoxError(xinput) # "none"
        /\ (/\ ExplainEnded
            /\ xinput.graph \in {"no_target_node", "unsupported"}
            /\ xinput.postprocess_fn)
           => /\ xattempts = <<"white_box", "black_box">>
              /\ xinput.blackbox_ok =>
                    /\ xpc = "returned"
                    /\ xresult = [derived |-> "black_box", error |-> "none"]
              /\ ~xinput.blackbox_ok =>
                    /\ xpc = "raised"
                    /\ xresult = [derived |-> "none", error |-> "RuntimeError"]

\* an AUTO call on an unsupported graph has fallen back and returned
C1_Witness ==
    /\ xmode = "AUTO"
    /\ xinput.graph = "unsupported"
    /\ xinput.postprocess_fn
    /\ xpc = "returned"
    /\ xattempts = <<"white_box", "black_box">>
    /\ xresult.derived = "black_box"

-----------------------------------------------------------------------------
(* Claims on Visualizer.visualize.  A state with outcome # "none" is the   *)
(* state right after a call: call holds its arguments, pre the Explanation *)
(* it was given, trace the steps it completed.                             *)

CallEnded == outcome # "none"

TraceOps == [i \in 1..Len(trace) |-> trace[i].op]

IsPrefix(s, t) == Len(s) <= Len(t) /\ s = SubSeq(t, 1, Len(s))

OverlaySteps == <<"resize", "scaling", "colormap", "overlay", "metadata">>

\* C2: a call with overlay=True runs resize (with its rescale), then colormap,
\* then overlay, in that order, for every value of the resize and colormap
\* flags: the steps completed are always an initial part of that order, the
\* first three are completed whenever the maps are grayscale and the image is
\* given, and all of them when the call returns.
C2_OverlayImpliesResizeColormap ==
    (CallEnded /\ call.overlay) =>
        /\ IsPrefix(TraceOps, OverlaySteps)
        /\ (pre.layout \in GRAY_LAYOUTS /\ call.original_input_image # None)
              => Len(trace) >= 3
        /\ outcome = "returned" => TraceOps = OverlaySteps

\* overlay alone (resize=False, colormap=False) has returned
C2_Witness ==
    /\ outcome = "returned"
    /\ call.overlay /\ ~call.resize /\ ~call.colormap
    /\ TraceOps = OverlaySteps

\* position of a completed step in the fixed order: the standalone scale,
\* resize, the rescale that is part of resize, colormap, overlay, metadata
StepRank(i) ==
    LET op == trace[i].op
    IN  IF op = "scaling" THEN (IF i > 1 /\ trace[i - 1].op = "resize" THEN 3 ELSE 1)
        ELSE IF op = "resize" THEN 2
        ELSE IF op = "colormap" THEN 4
        ELSE IF op = "overlay" THEN 5
        ELSE 6

\* C3: in every call, whatever the flags, the steps run in the order scale,
\* resize, colormap, overlay, metadata burn-in; colormap is given grayscale
\* maps, overlay color maps, and the burn-in is the last step and is given
\* color maps.
C3_FixedStepOrder ==
    CallEnded =>
        /\ \A i \in 1..Len(trace), j \in 1..Len(trace) :
              i < j => StepRank(i) < StepRank(j)
        /\ \A i \in 1..Len(trace) :
              /\ trace[i].op = "colormap" => ~trace[i].color
              /\ trace[i].op = "overlay" => trace[i].color
              /\ trace[i].op = "metadata" => (trace[i].color /\ i = Len(trace))

\* a call on a detection Explanation has run all five steps
C3_Witness ==
    /\ outcome = "returned"
    /\ pre.metadata.task = "detection"
    /\ Len(trace) = 5
    /\ trace[5].op = "metadata"

ColorOf(layout) ==
    IF layout = ONE_MAP_PER_IMAGE_GRAY THEN ONE_MAP_PER_IMAGE_COLOR
    ELSE IF layout = MULTIPLE_MAPS_PER_IMAGE_GRAY THEN MULTIPLE_MAPS_PER_IMAGE_COLOR
    ELSE layout

\* C4: over any sequence of calls the layout either stays or goes from a
\* grayscale layout to the color layout of the same multiplicity, in a call
\* that completed colormap; it never goes from color back to grayscale; and a
\* call with colormap=True on an Explanation that is already color raises
\* ValueError.
C4_LayoutMonotone ==
    /\ [][\/ explanation'.layout = explanation.layout
          \/ /\ explanation.layout \in GRAY_LAYOUTS
             /\ explanation'.layout = ColorOf(explanation.layout)
             /\ \E i \in 1..Len(trace') : trace'[i].op = "colormap"]_vars
    /\ []((CallEnded /\ call.colormap /\ pre.layout \in COLOR_MAPPED_LAYOUTS)
             => (outcome = "ValueError" /\ explanation.layout = pre.layout))

\* colormap was requested on an Explanation a previous call had color-mapped
C4_Witness ==
    /\ ncalls = 2
    /\ call.colormap
    /\ pre.layout = MULTIPLE_MAPS_PER_IMAGE_COLOR
    /\ outcome = "ValueError"

\* C5: colormap only ever runs on uint8 maps.  With colormap alone
\* (scaling, resize and overlay off) on maps that are not uint8 the call
\* raises ValueError and the layout stays as it was; with scaling, resize or
\* overlay on, the maps reaching colormap are uint8 whatever dtype the call
\* was given, so colormap runs.
C5_ColormapOnUint8 ==
    CallEnded =>
        /\ \A i \in 1..Len(trace) : trace[i].op = "colormap" => trace[i].dtype = "uint8"
        /\ (/\ call.colormap /\ ~call.scaling /\ ~call.resize /\ ~call.overlay
            /\ pre.maps[1].dtype # "uint8")
           => (outcome = "ValueError" /\ explanation.layout = pre.layout /\ trace = <<>>)
        /\ (/\ call.colormap \/ call.overlay
            /\ call.scaling \/ call.resize \/ call.overlay
            /\ pre.layout \in GRAY_LAYOUTS
            /\ call.overlay => call.original_input_image # None
            /\ call.resize => (call.original_input_image # None \/ call.output_size # <<>>))
           => \E i \in 2..Len(trace) :
                 /\ trace[i].op = "colormap"
                 /\ trace[i - 1].op = "scaling"

\* float maps were scaled and then color-mapped in one call
C5_Witness ==
    /\ outcome = "returned"
    /\ pre.maps[1].dtype = "float32"
    /\ call.scaling /\ ~call.resize /\ ~call.overlay /\ call.colormap
    /\ TraceOps = <<"scaling", "colormap">>
    /\ trace[2].dtype = "uint8"

\* the size the resize step of the call resizes to
TargetSize ==
    IF call.output_size # <<>> THEN call.output_size
    ELSE infer_size_from_image(format_to_bhwc(call.original_input_image))

\* a uint8 map that fills 0..255 from 0 (or is all 0, for a constant map)
MinMaxScaled(m) ==
    /\ m.dtype = "uint8"
    /\ \A k \in 1..Len(m.px) : m.px[k] \in 0..255
    /\ SeqMin(m.px) = 0
    /\ SeqMax(m.px) \in {0, 255}

\* C6: whenever the resize step runs (only with resize=True or overlay=True)
\* the rescale to 0..255 uint8 follows it at once, whatever the scaling flag;
\* a call with resize and no colormap or overlay returns min-max scaled uint8
\* maps of the target size; the standalone scale runs exactly when
\* scaling=True and neither resize nor overlay is requested; scaling runs at
\* most once in a call.
C6_ResizeRescales ==
    CallEnded =>
        /\ \A i \in 1..Len(trace) :
              trace[i].op = "resize" =>
                  /\ call.resize \/ call.overlay
                  /\ i < Len(trace)
                  /\ trace[i + 1].op = "scaling"
        /\ Cardinality({i \in 1..Len(trace) : trace[i].op = "scaling"}) <= 1
        /\ (trace # <<>> /\ trace[1].op = "scaling")
              => (call.scaling /\ ~call.resize /\ ~call.overlay)
        /\ (call.scaling /\ ~call.resize /\ ~call.overlay /\ pre.layout \in GRAY_LAYOUTS)
              => (trace # <<>> /\ trace[1].op = "scaling")
        /\ (outcome = "returned" /\ call.resize /\ ~call.colormap /\ ~call.overlay)
              => \A i \in 1..Len(explanation.maps) :
                    /\ MinMaxScaled(explanation.maps[i])
                    /\ MapShape(explanation.maps[i]) = TargetSize

\* resize without the scaling flag returned rescaled float maps
C6_Witness ==
    /\ outcome = "returned"
    /\ call.resize /\ ~call.scaling /\ ~call.colormap /\ ~call.overlay
    /\ pre.maps[1].dtype = "float32"
    /\ TraceOps = <<"resize", "scaling">>
    /\ SeqMax(explanation.maps[1].px) = 255

\* C7: overlay=True without original_input_image, and resize=True (overlay
\* off) with neither original_input_image nor output_size, raise ValueError
\* before any step has run and leave the Explanation as it was.
C7_MissingInputRaises ==
    (/\ CallEnded
     /\ \/ call.overlay /\ call.original_input_image = None
        \/ /\ call.resize /\ ~call.overlay
           /\ call.original_input_image = None /\ call.output_size = <<>>)
    => (outcome = "ValueError" /\ explanation = pre /\ trace = <<>>)

\* overlay was requested on a grayscale Explanation with an output_size but
\* no image
C7_Witness ==
    /\ outcome = "ValueError"
    /\ call.overlay /\ call.original_input_image = None /\ call.output_size # <<>>
    /\ pre.layout \in GRAY_LAYOUTS
    /\ explanation = pre

RegularImages == ImagesOfSize(ImgH, ImgW)

\* the detection metadata, if any, has an entry for every explained target
MetadataCovers(expl) ==
    expl.metadata.task = "detection" =>
        \A i \in 1..Len(expl.keys) : expl.keys[i] \in expl.metadata.targets

\* C8: after a call with overlay=True returns there are as many maps as
\* before and each has shape (H, W, 3), (H, W) being output_size when given
\* and the size inferred from the image otherwise; for an image in any of
\* the four layouts such a call on grayscale maps does return, and without
\* output_size (H, W) is the image's own spatial size.
C8_OverlayShape ==
    (CallEnded /\ call.overlay) =>
        /\ outcome = "returned" =>
              /\ Len(explanation.maps) = Len(pre.maps)
              /\ \A i \in 1..Len(explanation.maps) :
                    MapShape(explanation.maps[i]) = TargetSize \o <<Channels>>
        /\ (/\ pre.layout \in GRAY_LAYOUTS
            /\ call.original_input_image \in RegularImages
            /\ MetadataCovers(pre))
           => /\ outcome = "returned"
              /\ call.output_size = <<>> =>
                    \A i \in 1..Len(explanation.maps) :
                        MapShape(explanation.maps[i]) = <<ImgH, ImgW, Channels>>

\* overlay of several target maps on a BCHW image, size taken from the image
C8_Witness ==
    /\ outcome = "returned"
    /\ call.overlay
    /\ call.output_size = <<>>
    /\ call.original_input_image = Image(<<1, Channels, ImgH, ImgW>>)
    /\ Len(explanation.maps) = MaxTargets
    /\ MapShape(explanation.maps[MaxTargets]) = <<ImgH, ImgW, Channels>>

\* the Explanation holding only target i of expl
OnlyTarget(expl, i) == [expl EXCEPT !.keys = <<expl.keys[i]>>, !.maps = <<expl.maps[i]>>]

\* C9: a call that returns keeps the explained targets: for a multiple-maps
\* layout the keys are those before the call, in the same order, and the map
\* under each key is what the same call makes of that target's own map; for
\* a one-map layout the only key is per_image_map.
C9_TargetsPreserved ==
    outcome = "returned" =>
        IF pre.layout \in MULTIPLE_MAP_LAYOUTS
        THEN /\ explanation.keys = pre.keys
             /\ Len(explanation.maps) = Len(pre.maps)
             /\ \A i \in 1..Len(pre.keys) :
                   explanation.maps[i] = visualize(OnlyTarget(pre, i), call).expl.maps[1]
        ELSE explanation.keys = <<per_image_map>> /\ Len(explanation.maps) = 1

\* two targets, not in ascending order, were processed into different maps
C9_Witness ==
    /\ outcome = "returned"
    /\ pre.layout = MULTIPLE_MAPS_PER_IMAGE_GRAY
    /\ Len(pre.keys) >= 2
    /\ pre.keys[1] = ToString(MaxTargets)
    /\ explanation.keys = pre.keys
    /\ trace # <<>>
    /\ explanation.maps[1] # explanation.maps[2]

\* the same call with an image in place of the output_size
WithImage(im) == [call EXCEPT !.original_input_image = im, !.output_size = <<>>]

SameAsWithImage(im) ==
    LET r == visualize(pre, WithImage(im))
    IN  /\ r.outcome = outcome
        /\ r.expl.layout = explanation.layout
        /\ r.expl.keys = explanation.keys
        /\ r.expl.maps = explanation.maps

\* C10 as stated: with overlay=False, a call with output_size=(h, w) and no
\* image gives the same maps as the call with an image of spatial size (h, w)
\* and no output_size, for every (h, w).
C10_SameMapsForEverySize ==
    (/\ CallEnded /\ ~call.overlay
     /\ call.original_input_image = None /\ call.output_size # <<>>)
    => \A im \in ImagesOfSize(call.output_size[1], call.output_size[2]) :
          SameAsWithImage(im)

\* C10 amended: the same, for h and w both larger than the number of
\* channels of the (three-channel) image.
C10_SameMapsAboveChannels ==
    (/\ CallEnded /\ ~call.overlay
     /\ call.original_input_image = None /\ call.output_size # <<>>
     /\ call.output_size[1] > Channels /\ call.output_size[2] > Channels)
    => \A im \in ImagesOfSize(call.output_size[1], call.output_size[2]) :
          SameAsWithImage(im)

\* maps were resized to an explicit size larger than the channel count
C10_Witness ==
    /\ outcome = "returned"
    /\ ~call.overlay /\ call.resize
    /\ call.original_input_image = None
    /\ call.output_size = <<ImgW, ImgH>>
    /\ MapShape(explanation.maps[1]) = <<ImgW, ImgH>>

-----------------------------------------------------------------------------
(* Claims on scaling.  A state with scal.pc "scaled" or "rescaled" holds   *)
(* the array scaling was given in scal.saliency_map and its result in      *)
(* scal.out; scal.again is the result of scaling that result once more.    *)

Scaled == scal.pc \in {"scaled", "rescaled"}

\* the number of maps of the array scaling was given, and the elements of
\* the i-th map of that array or of a result
NumMaps == IF Len(scal.saliency_map.shape) = 2 THEN 1 ELSE scal.saliency_map.shape[1]
MapElements(a, i) ==
    LET hw == Len(a.flat) \div NumMaps
    IN  SubSeq(a.flat, (i - 1) * hw + 1, i * hw)

\* an element of a result lies in [0, 255]
ElementInRange(a, k) ==
    IF a.dtype = "uint8" THEN 0 <= a.flat[k] /\ a.flat[k] <= 255
    ELSE /\ a.flat[k].den > 0
         /\ 0 <= a.flat[k].num
         /\ a.flat[k].num <= 255 * a.flat[k].den

\* C11: scaling returns, for every finite 2D or 3D map, an array of the
\* shape of its input whose elements all lie in [0, 255], of dtype uint8
\* when cast_to_uint8 is set and float32 when it is not.
C11_SameShapeInRange ==
    Scaled =>
        /\ scal.out.exc = "none"
        /\ scal.out.shape = scal.saliency_map.shape
        /\ \A k \in 1..Len(scal.out.flat) : ElementInRange(scal.out, k)
        /\ scal.out.dtype = IF scal.cast_to_uint8 THEN "uint8" ELSE "float32"

\* the integer part of every element of a map of a result (-1 for a
\* non-finite one)
Floors(a, i) ==
    LET m == MapElements(a, i)
    IN  Array([k \in 1..Len(m) |->
            IF a.dtype = "uint8" THEN m[k]
            ELSE IF m[k].den = 0 THEN -1 ELSE m[k].num \div m[k].den])

\* the i-th map of the result has minimum 0 and maximum 254 or 255
FullRange(a, i) ==
    /\ SeqMin(Floors(a, i)) = 0
    /\ SeqMax(Floors(a, i)) \in {254, 255}
    /\ a.dtype = "float32" =>
           \E k \in 1..Len(MapElements(a, i)) : MapElements(a, i)[k].num = 0

NonConstant(a, i) == SeqMin(MapElements(a, i)) # SeqMax(MapElements(a, i))

\* max - min of the i-th map lies between 1e-9 and 1e36: a thousand times
\* the 1e-12 of the divisor at least, and 255 times it within float32
OrdinaryRange(a, i) ==
    LET r == SeqMax(MapElements(a, i)) - SeqMin(MapElements(a, i))
    IN  CASE a.unit = "eps" -> r >= 1000
          [] a.unit = "one" -> r >= 1
          [] a.unit = "huge" -> r >= 1 /\ r <= 6

\* C12 as stated: scaling maps every map of non-constant values, each map
\* of a stack by its own minimum and maximum, to minimum 0 and maximum 254
\* or 255.
C12_NonConstantFullRange ==
    Scaled =>
        \A i \in 1..NumMaps :
            NonConstant(scal.saliency_map, i) => FullRange(scal.out, i)

\* C12 as amended: scaling maps every map whose range max - min lies
\* between 1e-9 and 1e36, each map of a stack by its own minimum and
\* maximum, to minimum 0 and maximum 254 or 255.
C12_OrdinaryRangeFullRange ==
    Scaled =>
        \A i \in 1..NumMaps :
            OrdinaryRange(scal.saliency_map, i) => FullRange(scal.out, i)

\* a stack of two maps of different minima and ordinary ranges was scaled,
\* and the maximum of a scaled map is 254
C12_Witness ==
    /\ scal.pc = "scaled"
    /\ scal.cast_to_uint8
    /\ NumMaps = 2
    /\ \A i \in 1..2 : OrdinaryRange(scal.saliency_map, i)
    /\ SeqMin(MapElements(scal.saliency_map, 1)) # SeqMin(MapElements(scal.saliency_map, 2))
    /\ SeqMax(Floors(scal.out, 1)) = 254

\* C13: scaling is idempotent, scaling(scaling(x)) equals scaling(x)
\* element by element for every map x.
C13_ScalingIdempotent ==
    scal.pc = "rescaled" => scal.again = scal.out

-----------------------------------------------------------------------------
(* Claims on get_target_indices and explains_all.  A state with tgt.pc     *)
(* "resolved" holds the targets and label_names get_target_indices was     *)
(* given and what it returned or raised; one with tgt.pc "asked" holds the *)
(* targets explains_all was given and its answer.                          *)

NamesResolved == tgt.pc = "resolved" /\ tgt.targets.etype = "str"

\* every requested name occurs in label_names
AllPresent == \A k \in 1..Len(tgt.targets.names) : tgt.targets.names[k] \in Range(tgt.label_names)

\* the integer targets made of the indices get_target_indices returned
AsIntegerTargets(indices) ==
    [type |-> "list", etype |-> "int", ints |-> indices, names |-> <<>>]

\* C14 as stated: for names that all occur in label_names, the result holds
\* at each position the index of the name requested at that position, and
\* is the list get_target_indices returns for those integer indices,
\* whatever the order of the request.
C14_NamesPositionByPosition ==
    NamesResolved /\ AllPresent =>
        /\ tgt.result.exc = "none"
        /\ Len(tgt.result.indices) = Len(tgt.targets.names)
        /\ \A k \in 1..Len(tgt.targets.names) :
               tgt.label_names[tgt.result.indices[k] + 1] = tgt.targets.names[k]
        /\ get_target_indices(AsIntegerTargets(tgt.result.indices), tgt.label_names).indices
               = tgt.result.indices

\* the requested names are distinct and each occurs once in label_names
EachOnce ==
    /\ \A k, l \in 1..Len(tgt.targets.names) :
           tgt.targets.names[k] = tgt.targets.names[l] => k = l
    /\ \A k \in 1..Len(tgt.targets.names) :
           Cardinality({j \in 1..Len(tgt.label_names) :
                            tgt.label_names[j] = tgt.targets.names[k]}) = 1

\* the index of a name that occurs once in label_names
IndexOf(name) == (CHOOSE j \in 1..Len(tgt.label_names) : tgt.label_names[j] = name) - 1

\* the request lists its names in the order label_names has them
InTableOrder ==
    \A k \in 1..(Len(tgt.targets.names) - 1) :
        IndexOf(tgt.targets.names[k]) < IndexOf(tgt.targets.names[k + 1])

\* C14 as amended: for distinct names that each occur once in label_names,
\* the result holds the indices of the requested names in increasing
\* order, whatever the order of the request; it holds at each position the
\* index of the name requested there exactly when the names are requested
\* in label_names order.
C14_NamesInTableOrder ==
    NamesResolved /\ EachOnce =>
        /\ tgt.result.exc = "none"
        /\ Len(tgt.result.indices) = Len(tgt.targets.names)
        /\ \A k \in 1..(Len(tgt.result.indices) - 1) :
               tgt.result.indices[k] < tgt.result.indices[k + 1]
        /\ Range(tgt.result.indices) = {IndexOf(name) : name \in Range(tgt.targets.names)}
        /\ (\A k \in 1..Len(tgt.targets.names) :
                tgt.result.indices[k] = IndexOf(tgt.targets.names[k])) <=> InTableOrder

\* two names were requested against the order of label_names and resolved
C14_Witness ==
    /\ NamesResolved
    /\ EachOnce
    /\ Len(tgt.targets.names) = 2
    /\ ~InTableOrder
    /\ tgt.result.exc = "none"

\* C15: get_target_indices raises ValueError, and returns no indices,
\* whenever a requested name is not in label_names, for every label table
\* and every list of names.
C15_UnknownNameRaises ==
    NamesResolved /\ ~AllPresent =>
        tgt.result.exc = "ValueError" /\ tgt.result.indices = <<>>

IntegerMinusOne == [type |-> "int", etype |-> "int", ints |-> <<-1>>, names |-> <<>>]
ListMinusOne == [type |-> "list", etype |-> "int", ints |-> <<-1>>, names |-> <<>>]
ArrayMinusOne == [type |-> "ndarray", etype |-> "int", ints |-> <<-1>>, names |-> <<>>]
StringMinusOne == [type |-> "str", etype |-> "str", ints |-> <<>>, names |-> <<"-1">>]

\* C16: explains_all answers True for the integer -1, the one-element list
\* or array [-1] and the string "-1", and False for every list of class
\* indices or of label names.
C16_SentinelSpellings ==
    tgt.pc = "asked" =>
        /\ (tgt.targets \in {IntegerMinusOne, ListMinusOne, ArrayMinusOne, StringMinusOne}
               => tgt.result.all)
        /\ (tgt.targets.type \in {"list", "ndarray"}
               /\ tgt.targets \notin {ListMinusOne, ArrayMinusOne}
               => ~tgt.result.all)

\* explains_all was asked about the list [-1, i] and answered False
C16_Witness ==
    /\ tgt.pc = "asked"
    /\ tgt.targets.type = "list"
    /\ tgt.targets.etype = "int"
    /\ Len(tgt.targets.ints) = 2
    /\ tgt.targets.ints[1] = -1
    /\ ~tgt.result.all

-----------------------------------------------------------------------------
(* Claims on RISE.  rise.done lists the finished calls of the object, each *)
(* with its arguments p, the masks and scores of its trials (log) and what *)
(* it returned; a state with rise.pc "returned" or "raised" is the state   *)
(* right after a call.  The scores of the model are whole numbers, so the  *)
(* sums of the accumulator are exact.                                      *)

\* the arguments that place the masks, on one image
SameMaskParameters(a, b) ==
    /\ a.data = b.data
    /\ a.seed = b.seed
    /\ a.num_masks = b.num_masks
    /\ a.num_cells = b.num_cells
    /\ a.prob = b.prob

\* C17: two generate_saliency_map calls on the same model and image with the
\* same seed, num_masks, num_cells and prob draw the same sequence of masks,
\* and with the same targets and scale_output return identical saliency
\* maps, whatever calls the object served before them.
C17_RiseDeterministic ==
    \A i, j \in 1..Len(rise.done) :
        LET a == rise.done[i]
            b == rise.done[j]
        IN  /\ (SameMaskParameters(a.p, b.p) =>
                   \A k \in 1..Min2(Len(a.log), Len(b.log)) :
                       a.log[k].mask = b.log[k].mask)
            /\ ((a.p = b.p /\ a.result.exc = "none" /\ b.result.exc = "none") =>
                   a.result = b.result)

\* a call was repeated after a call with another seed, both returned, and its
\* masks are not all the same mask
C17_Witness ==
    \E i, j \in 1..Len(rise.done) :
        /\ i < j
        /\ rise.done[i].p = rise.done[j].p
        /\ rise.done[i].result.exc = "none"
        /\ rise.done[j].result.exc = "none"
        /\ Len(rise.done[j].log) >= 2
        /\ rise.done[j].log[1].mask # rise.done[j].log[2].mask
        /\ \E h \in 1..(j - 1) : rise.done[h].p.seed # rise.done[j].p.seed

\* the trials of log taken in the given order: the sum of score[target] * mask
\* at pixel i
RECURSIVE SumInOrder(_, _, _, _, _)
SumInOrder(log, order, n, target, i) ==
    IF n = 0 THEN 0
    ELSE SumInOrder(log, order, n - 1, target, i)
         + Take(log[order[n]].scores, target) * log[order[n]].mask[i]

\* the returned map of the j-th target is the sum of the trials in this order
IsSumOfTrials(order) ==
    LET pixels == rise.input_size[1] * rise.input_size[2]
        n == Len(rise.log)
    IN  IF rise.p.target_indices = Absent
        THEN \A c \in 1..rise.num_targets, i \in 1..pixels :
                 rise.result.flat[(c - 1) * pixels + i]
                     = SumInOrder(rise.log, order, n, c - 1, i)
        ELSE \A j \in 1..Len(rise.result.keys), i \in 1..pixels :
                 rise.result.maps[j].flat[i]
                     = SumInOrder(rise.log, order, n, rise.result.keys[j], i)

\* C18: a call runs num_masks trials, one after the other (the num_masks
\* given, else 2000, 5000 or 8000 by preset), each with one forward pass on
\* the input times the trial's mask, and with scale_output=False the map of
\* each target is the sum over the trials of score[target] * mask, in
\* whatever order the trials are summed.
C18_ExactlyNumMasksTrials ==
    /\ (rise.pc = "loop" => (rise.nforward = rise.k /\ rise.k <= rise.num_masks))
    /\ (rise.pc = "returned" =>
           /\ rise.k = rise.num_masks
           /\ rise.nforward = rise.num_masks
           /\ rise.num_masks =
                 IF rise.p.num_masks # Absent THEN rise.p.num_masks[1]
                 ELSE IF rise.p.preset = SPEED THEN 2000
                 ELSE IF rise.p.preset = BALANCE THEN 5000
                 ELSE 8000
           /\ ((rise.p.num_masks # Absent /\ ~rise.p.scale_output) =>
                  /\ Len(rise.log) = rise.num_masks
                  /\ \A order \in Permutations(1..Len(rise.log)) : IsSumOfTrials(order)))

\* a call for targets [1, 0] with scale_output=False returned after two
\* trials or more with different masks, and the two maps differ
C18_Witness ==
    /\ rise.pc = "returned"
    /\ rise.p.num_masks # Absent
    /\ rise.num_masks >= 2
    /\ ~rise.p.scale_output
    /\ rise.p.target_indices = Some(<<1, 0>>)
    /\ rise.log[1].mask # rise.log[2].mask
    /\ rise.result.maps[1].flat # rise.result.maps[2].flat

\* C19: when a trial fails (the forward pass raises, or the output is
\* rejected by the check) the call ends with that error at once: the failed
\* trial is the last one to run, and nothing of the accumulator is returned.
C19_TrialFailureAborts ==
    rise.failures > 0 =>
        /\ rise.pc = "raised"
        /\ rise.failures = 1
        /\ rise.nforward = rise.k + 1
        /\ rise.result.exc # "none"
        /\ rise.result.kind = "none"
        /\ rise.saliency_maps = <<>>

\* a trial failed after a trial that had succeeded and with trials to go
C19_Witness ==
    /\ rise.failures > 0
    /\ rise.k >= 1
    /\ rise.k + 1 < rise.num_masks

\* C20: a call that returns gives one map per explained target, each of the
\* spatial size (H, W) of the input: for target_indices None an array of
\* num_classes maps, for a list of targets a dict with one entry for each
\* requested target, under that target as its key.
C20_OneMapPerTarget ==
    rise.pc = "returned" =>
        LET size == rise.input_size
        IN  IF rise.p.target_indices = Absent
            THEN /\ rise.result.kind = "ndarray"
                 /\ rise.result.shape = <<1, get_num_classes>> \o size
            ELSE /\ rise.result.kind = "dict"
                 /\ Range(rise.result.keys) = Range(rise.p.target_indices[1])
                 /\ Cardinality(Range(rise.result.keys)) = Len(rise.result.keys)
                 /\ \A j \in 1..Len(rise.result.keys) :
                        rise.result.maps[j].shape = size


-----------------------------------------------------------------------------
(* Claims about get_target_node *)

\* the positions of ops, last node first
LastToFirst(ops) == Array([j \in 1..Len(ops) |-> Len(ops) + 1 - j])

\* the nodes of the given name
Named(ops, name) == {i \in 1..Len(ops) : ops[i].name = name}

\* the largest position of a non-empty set of positions
LastOf(positions) == CHOOSE i \in positions : \A j \in positions : j <= i

\* not a constant, one output, rank 4 and 1 < H, W < C
IsSpatialFeatureMap(op) ==
    /\ op.type # "Constant"
    /\ op.outputs = 1
    /\ Len(op.shape) = 4
    /\ 1 < op.shape[3] /\ op.shape[3] < op.shape[2]
    /\ 1 < op.shape[4] /\ op.shape[4] < op.shape[2]

SpatialFeatureMaps(ops) == {i \in 1..Len(ops) : IsSpatialFeatureMap(ops[i])}

\* an Add whose inputs are all rank-3 and none from a Constant or a Convert
IsCountedAdd(ops, i) ==
    /\ ops[i].type = "Add"
    /\ \A j \in 1..Len(ops[i].inputs) :
          /\ Len(ops[ops[i].inputs[j]].shape) = 3
          /\ ops[ops[i].inputs[j]].type \notin {"Constant", "Convert"}

CountedAdds(ops) == SelectSeq(LastToFirst(ops), LAMBDA i : IsCountedAdd(ops, i))

NameGiven == node.target_node_name \notin {<<>>, <<"">>}

\* C21: when a target node name is given, the node returned is the last node
\* in topological order whose name equals it, whatever the model family and
\* k; when no node has the name an error is raised and no node is returned.
C21_ExplicitNameWins ==
    (node.pc = "resolved" /\ NameGiven) =>
        LET named == Named(node.ops, node.target_node_name[1])
        IN  IF named = {}
            THEN node.result.exc = "ValueError" /\ node.result.node = NoNode
            ELSE node.result.exc = "none" /\ node.result.node = LastOf(named)

\* a transformer call with k = 2 on a model with two nodes of the given name
\* got the last of them
C21_Witness ==
    /\ node.pc = "resolved"
    /\ node.target_node_name = <<"conv">>
    /\ node.model_type = <<TRANSFORMER>>
    /\ node.k = 2
    /\ Cardinality(Named(node.ops, "conv")) >= 2
    /\ node.result.exc = "none"
    /\ node.result.node = LastOf(Named(node.ops, "conv"))

\* C22: for the convolutional family without a name, the node returned is
\* the last node in topological order that is a spatial feature map.
C22_LastSpatialNode ==
    (/\ node.pc = "resolved"
     /\ ~NameGiven
     /\ node.k >= 1
     /\ node.model_type = <<CNN>>
     /\ SpatialFeatureMaps(node.ops) # {}) =>
        /\ node.result.exc = "none"
        /\ node.result.node = LastOf(SpatialFeatureMaps(node.ops))

\* the pooling nodes whose output has no spatial extent
PoolingNodes(ops) ==
    {i \in 1..Len(ops) : /\ NameHasPool(ops[i].name)
                         /\ Len(ops[i].shape) = 4
                         /\ ~_has_spacial_size(ops, i)}

\* C23: for the convolutional family, when no node is a spatial feature map
\* and the input of the last pooling node without spatial extent comes from
\* a node with spatial extent, that node is returned.
C23_PoolingFallback ==
    (/\ node.pc = "resolved"
     /\ ~NameGiven
     /\ node.k = 1
     /\ node.model_type = <<CNN>>
     /\ SpatialFeatureMaps(node.ops) = {}
     /\ PoolingNodes(node.ops) # {}) =>
        LET source == node.ops[LastOf(PoolingNodes(node.ops))].inputs[1]
        IN  (Len(node.ops[source].shape) = 4 /\ _has_spacial_size(node.ops, source)) =>
                (node.result.exc = "none" /\ node.result.node = source)

\* C24: for the transformer family without a name, the node returned is the
\* k-th counted Add from the last node backwards; an Add with a constant,
\* converted or non-rank-3 input is neither counted nor returned.
C24_KthCountedAdd ==
    (/\ node.pc = "resolved"
     /\ ~NameGiven
     /\ node.model_type = <<TRANSFORMER>>) =>
        LET counted == CountedAdds(node.ops)
        IN  IF node.k >= 1 /\ Len(counted) >= node.k
            THEN node.result.exc = "none" /\ node.result.node = counted[node.k]
            ELSE node.result.exc # "none"

\* with k = 1 the search passed over a later Add that has a constant input
C24_Witness ==
    /\ node.pc = "resolved"
    /\ ~NameGiven
    /\ node.model_type = <<TRANSFORMER>>
    /\ node.k = 1
    /\ node.result.exc = "none"
    /\ \E i \in 1..Len(node.ops) :
          /\ i > node.result.node
          /\ node.ops[i].type = "Add"
          /\ ~IsCountedAdd(node.ops, i)

\* C25: get_target_node never returns None: a call returns one node of the
\* model or raises; without a name, a search that finds fewer than k
\* candidates raises a RuntimeError that asks for explicit input.
C25_NeverNone ==
    node.pc = "resolved" =>
        /\ node.result.exc = "none" => node.result.node \in 1..Len(node.ops)
        /\ node.result.exc # "none" => node.result.node = NoNode
        /\ (/\ ~NameGiven
            /\ \/ node.model_type = <<>>
               \/ node.model_type = <<CNN>>
                    /\ ~(node.k >= 1 /\ Cardinality(SpatialFeatureMaps(node.ops)) >= node.k)
               \/ node.model_type = <<TRANSFORMER>>
                    /\ ~(node.k >= 1 /\ Len(CountedAdds(node.ops)) >= node.k)) =>
                /\ node.result.exc = "RuntimeError"
                /\ node.result.msg \in {"please provide target_layer",
                                        "please explicitly provide input parameters"}

\* a transformer search with k = 2 and one candidate raised
C25_Witness ==
    /\ node.pc = "resolved"
    /\ ~NameGiven
    /\ node.model_type = <<TRANSFORMER>>
    /\ node.k = 2
    /\ Len(CountedAdds(node.ops)) = 1
    /\ node.result.exc = "RuntimeError"
    /\ node.result.node = NoNode

-----------------------------------------------------------------------------
(* Claims about has_xai *)

HasSaliencyOutput(model) ==
    \E i \in 1..Len(model.outputs) : "saliency_map" \in model.outputs[i]

\* C26: has_xai returns True exactly when some output of the model carries
\* the name "saliency_map": False on a model without such an output, True on
\* the model insert_xai returns; the model is left as it was; an argument
\* that is not a model raises ValueError.
C26_HasXaiIffSaliencyOutput ==
    xai.pc = "asked" =>
        /\ xai.model = xai.before
        /\ xai.before.is_model =>
              /\ xai.result.exc = "none"
              /\ xai.result.value = HasSaliencyOutput(xai.before)
              /\ xai.inserted => xai.result.value
        /\ ~xai.before.is_model => xai.result.exc = "ValueError"

\* has_xai answered True on a model whose only "saliency_map" output is the
\* one insert_xai appended to its other outputs
C26_Witness ==
    /\ xai.pc = "asked"
    /\ xai.inserted
    /\ xai.result.exc = "none"
    /\ xai.result.value
    /\ Len(xai.before.outputs) >= 2
    /\ \A i \in 1..(Len(xai.before.outputs) - 1) :
          "saliency_map" \notin xai.before.outputs[i]

-----------------------------------------------------------------------------
(* Claims about RISE._generate_mask *)

\* C27: the mask _generate_mask returns has exactly the shape of the input
\* size (H, W), square or not, for every num_cells >= 1 and every shift
\* drawn, and all of its values lie in [0, 1].
C27_MaskHasInputSize ==
    msk.pc = "generated" =>
        /\ msk.mask.shape = msk.input_size
        /\ Len(msk.mask.px) = msk.input_size[1] * msk.input_size[2]
        /\ \A i \in 1..Len(msk.mask.px) : msk.mask.px[i] \in 0..1

-----------------------------------------------------------------------------
(* Claims about resize *)

\* C28: resize takes a stack of C maps through consecutive batches of at
\* most 500 channels and returns a stack of shape (C, h, w) that holds the
\* resized maps of the input in the order of the input, for every C >= 1;
\* a 2-D map comes back as a 2-D map of shape (h, w).
C28_ResizeKeepsChannels ==
    rsz.pc = "resized" =>
        LET h == rsz.output_size[1]
            w == rsz.output_size[2]
        IN  /\ rsz.out.ndim = rsz.saliency_map.ndim
            /\ rsz.out.h = h /\ rsz.out.w = w
            /\ rsz.saliency_map.ndim = 2 =>
                  /\ Len(rsz.out.plane) = h * w
                  /\ \A k \in 1..(h * w) : rsz.out.plane[k] \in 0..255
            /\ rsz.saliency_map.ndim = 3 =>
                  LET C == Len(rsz.saliency_map.data)
                  IN
                  /\ Len(rsz.out.data) = C
                  /\ \A c \in 1..C :
                        rsz.out.data[c] = cv2_resize(rsz.saliency_map.data[c],
                                                     rsz.saliency_map.h,
                                                     rsz.saliency_map.w, h, w)
                  /\ Len(rsz.batches) >= 1
                  /\ rsz.batches[1][1] = 0
                  /\ rsz.batches[Len(rsz.batches)][2] = C
                  /\ \A b \in 1..Len(rsz.batches) :
                        /\ rsz.batches[b][2] - rsz.batches[b][1] \in 1..500
                        /\ b > 1 => rsz.batches[b][1] = rsz.batches[b - 1][2]

\* a stack of 501 maps went through a full batch and a batch of one channel
C28_Witness ==
    /\ rsz.pc = "resized"
    /\ rsz.saliency_map.ndim = 3
    /\ Len(rsz.saliency_map.data) = 501
    /\ rsz.batches = <<(<<0, 500>>), (<<500, 501>>)>>
    /\ Len(rsz.out.data) = 501
    /\ rsz.out.h # rsz.saliency_map.h

-----------------------------------------------------------------------------
(* Claims about format_to_bhwc *)

\* the result of format_to_bhwc is classified BHWC, a second application
\* leaves it as it is, and the size inferred from it is its dimensions 1, 2
FormatSettled ==
    /\ lay.out.shape[2] > lay.out.shape[4]
    /\ lay.out.shape[3] > lay.out.shape[4]
    /\ is_bhwc_layout(lay.out.shape)
    /\ lay.again = lay.out
    /\ infer_size_from_image(lay.out) = <<lay.out.shape[2], lay.out.shape[3]>>

\* the last three dimensions of the image, read as (H, W, C) or as
\* (C, H, W), have a channel count smaller than both spatial dimensions
ChannelsBelowSides ==
    LET n == Len(lay.image.shape)
        a == lay.image.shape[n - 2]
        b == lay.image.shape[n - 1]
        c == lay.image.shape[n]
    IN  (c < a /\ c < b) \/ (a < b /\ a < c)

\* C29 as stated: for every 3-D or 4-D image shape the result of
\* format_to_bhwc is classified BHWC, a second application changes nothing
\* and the inferred size is the result's dimensions 1 and 2.
C29_FormatIdempotent ==
    lay.pc = "again" => FormatSettled

\* C29, amended: the same for every 3-D or 4-D image whose channel count is
\* smaller than both of its spatial dimensions.
C29_FormatIdempotentBelowSides ==
    (lay.pc = "again" /\ ChannelsBelowSides) => FormatSettled

\* a channel-first image of three dimensions was transposed once and left
\* alone the second time
C29_Witness ==
    /\ lay.pc = "again"
    /\ lay.image.shape = <<3, 4, 4>>
    /\ lay.out.shape = <<1, 4, 4, 3>>
    /\ lay.again = lay.out

-----------------------------------------------------------------------------
(* Claims about the Explanation across visualize calls, raising ones        *)
(* included                                                                 *)

\* C30: across any visualize call, returning or raising, the layout of the
\* Explanation is a color layout only if its stored maps are color-mapped;
\* when the call raises, the layout and the stored maps are those the
\* Explanation had before the call.
C30_LayoutMatchesMaps ==
    /\ explanation.layout \in COLOR_MAPPED_LAYOUTS =>
          \A i \in 1..Len(explanation.maps) : explanation.maps[i].color
    /\ outcome \notin {"none", "returned"} =>
          /\ explanation.layout = pre.layout
          /\ explanation.keys = pre.keys
          /\ explanation.maps = pre.maps

=============================================================================
